---- MODULE Spec2Model ----
(***************************************************************************)
(* xarray-behave: assembly of one time-aligned dataset from independently  *)
(* clocked recordings (xarray_behave.assemble).                            *)
(*                                                                         *)
(* One call of assemble is modelled as a sequence of steps, one per loader *)
(* call or per block of the function, so that the order of the loader      *)
(* calls and the position at which an exception leaves the function are    *)
(* visible.  Times in seconds are rationals <<numerator, denominator>>.    *)
(* Frames are numbered from 0; the timing table ss holds at index f + 1    *)
(* the sample number of frame f.  The loaders and the timing object are    *)
(* not part of the modelled file: a loader either fails or returns data    *)
(* for a range of recorded frames, and the timing tables cover the whole   *)
(* recording, so that ss.sample and ss.frame are asked for recorded frames *)
(* and samples only.                                                       *)
(***************************************************************************)
EXTENDS Integers, Sequences, FiniteSets, TLC

(* ---------------------------- bounds ----------------------------------- *)
\* number of video frames recorded in the timing table
NFrames == 4
\* largest distance in samples between two consecutive frames
MaxInc == 3
\* largest target_sampling_rate passed by the caller
MaxTargetRate == 9
\* denominator of the manual annotation times (seconds are k / TimeDen)
TimeDen == 16

(* ---------------------------- values ----------------------------------- *)
None == "None"
\* a float is the rational << numerator, denominator >>; NaN is 0 / 0
NaN == << 0, 0 >>
\* raised by ss.sample for a frame outside the recorded span
OutOfRange == -1

\* sampling rate of the recording reported by load_times (Hz)
SamplingRates == {8}
\* target rates: ratio 8/3 (int 2, round 3), 8/4 = 2, 8/5 (int 1, round 2),
\* and a target rate above the sampling rate
TargetRates == {3, 4, 5, MaxTargetRate}
\* the timing tables: strictly increasing frame -> sample mappings
Increments == {MaxInc - 1, MaxInc}
RECURSIVE TableFrom(_, _)
TableFrom(start, incs) ==
    IF incs = << >> THEN << start >>
    ELSE << start >> \o TableFrom(start + Head(incs), Tail(incs))
\* evenly spaced frames, and frames with jitter; the first frame is taken at
\* sample 0
TimingTables ==
    { TableFrom(0, [i \in 1..(NFrames - 1) |-> p]) : p \in Increments }
    \cup { TableFrom(0, [i \in 1..(NFrames - 1) |-> IF i % 2 = 1 THEN MaxInc ELSE 1]),
            TableFrom(0, [i \in 1..(NFrames - 1) |-> IF i % 2 = 1 THEN 1 ELSE MaxInc]) }
\* last sample numbers of the recording: it ends with the last frame or
\* shortly before it, so that ss.frame is asked for recorded samples only
LastSampleNumbers(table) == { table[Len(table)] - MaxInc + 1, table[Len(table)] }

Min(a, b) == IF a <= b THEN a ELSE b
Max(a, b) == IF a >= b THEN a ELSE b
Range(s) == { s[i] : i \in 1..Len(s) }

\* np.arange(start, stop, step) for step > 0: ceil((stop - start) / step)
\* values start, start + step, ..
Arange(start, stop, stp) ==
    IF start >= stop THEN << >>
    ELSE [i \in 1..((stop - start + stp - 1) \div stp) |-> start + (i - 1) * stp]

(* ------------------------- timing model -------------------------------- *)
\* ss.sample(frame): sample number of a recorded frame; OutOfRange outside
\* the recorded span
SsSample(table, f) ==
    IF f \in 0..(Len(table) - 1) THEN table[f + 1] ELSE OutOfRange

\* ss.sample(frames) for an array of frames
SsSampleAll(table, frames) == [i \in 1..Len(frames) |-> SsSample(table, frames[i])]

\* scipy interp1d(x, y, kind='nearest', bounds_error=False, fill_value=nan):
\* the index is the number of midpoints (x[i] + x[i+1]) / 2 below x_new
Interp1dNearest(x, y, xnew) ==
    IF xnew < x[1] \/ xnew > x[Len(x)] THEN NaN
    ELSE << y[1 + Cardinality({ i \in 1..(Len(x) - 1) : x[i] + x[i + 1] < 2 * xnew })], 1 >>

\* ss.frame(sample): nearest recorded frame, unknown (NaN) outside the span
SsFrame(table, s) ==
    Interp1dNearest(table, [i \in 1..Len(table) |-> i - 1], s)

\* ss.frame_time(frames): time in seconds of each frame
SsFrameTime(table, frames, rate) ==
    [i \in 1..Len(frames) |-> << SsSample(table, frames[i]), rate >>]

(* ------------------------- loader results ------------------------------ *)
\* [first frame, last frame) ranges a tracks file can cover
TrackRanges == { << 0, NFrames >>, << 1, NFrames - 1 >> }
\* [first frame, last frame) ranges a pose file can cover
PoseRanges == { << 0, NFrames >>, << 1, NFrames >>, << 1, NFrames - 1 >> }
\* position stored in a tracks file for frame f
BodyPosAt(f) == 10 * (f + 1)
\* egocentric and allocentric positions stored in a pose file for frame f
PosePosAt(f) == 3 * f + 1
PosePosAlloAt(f) == 100 + 7 * f
\* the recording: one value per sample, 0 .. n - 1
SongOf(n) == [i \in 1..n |-> i - 1]
\* manual annotations, times in units of 1 / TimeDen seconds; a point event
\* has one column, a segment event two (onset, offset)
ManualAnnotations ==
    { [pulse_manual |-> << << 3 >>, << 7 >> >>, sine_manual |-> << << 2, 9 >> >>],
      [pulse_manual |-> << << 8 >>, << 9 >>, << 40 >> >>, sine_manual |-> << << 5, 6 >>, << 30, 31 >> >>] }

VARIABLES
    pc,                       \* position in assemble, "done" or "raised"
    error,                    \* the exception that left assemble
    calls,                    \* the loaders invoked so far, in order
    keep_multi_channel, resample_video_data, target_sampling_rate,
    ss, last_sample_number, sampling_rate,
    with_tracks, with_fixed_tracks, body_pos, first_tracked_frame, last_tracked_frame,
    with_poses, poses_from, pose_pos, pose_pos_allo, first_pose_frame, last_pose_frame,
    with_segmentation, with_song, res,
    with_segmentation_manual, manual_events_seconds,
    last_sample_with_frame, first_sample, last_sample, step,
    target_samples, time, sampletime, frame_numbers, nearest_frame_time,
    dataset_data, dataset,
    ev_pc,                    \* position of the event binning run on its own
    ev_in,                    \* its events: per name the rows of the annotation, in samples
    ev_step, ev_last,         \* its step and last_sample_with_frame
    ev_matrix,                \* its song_events_np
    vr, tmax, span, t0,       \* the viewer: video reader, samples, window, position
    nb_flies, focal_fly, other_fly,
    swap_events,              \* the swap log
    ds_pose_positions_allo, ds_pose_positions, ds_body_positions,
    ds_song_events,           \* the dataset's array of events along 'time'
    last_swap,                \* the entry of the last swap
    before_swap,              \* the log and the arrays before the last swap
    swapped_back,             \* the last swap repeated the one before it
    cat_pc,                   \* position of the assignment of event categories
    ds_event_types, has_event_categories, ds_event_categories,
    store_pc, save_dataset, zarr_store, load_lazy, load_normalize_strings, load_dataset, load_returned,
    main_pc, main_error, main_dat_path, main_res_path, ignore_existing, is_ds, main_with_song, main_resample_video_data, main_target_sampling_rate, assemble_kwargs, main_ds,
    rn_pc, rn_arg, rn_x, rn_error,
    cue_points, cue_index, STOP, frame_interval, presses, last_update, last_key,
    cb_index, sinet0, event_times, last_click,
    play_stack

argVars == << keep_multi_channel, resample_video_data, target_sampling_rate >>
timeVars == << ss, last_sample_number, sampling_rate >>
trackVars == << with_tracks, with_fixed_tracks, body_pos, first_tracked_frame, last_tracked_frame >>
poseVars == << with_poses, poses_from, pose_pos, pose_pos_allo, first_pose_frame, last_pose_frame >>
songVars == << with_segmentation, with_song, res >>
manualVars == << with_segmentation_manual, manual_events_seconds >>
gridVars == << last_sample_with_frame, first_sample, last_sample, step,
               target_samples, time, sampletime, frame_numbers, nearest_frame_time >>
outVars == << dataset_data, dataset >>
assembleVars == << pc, error, calls, argVars, timeVars, trackVars, poseVars, songVars,
                   manualVars, gridVars, outVars >>
binVars == << ev_pc, ev_in, ev_step, ev_last, ev_matrix >>
viewVars == << vr, tmax, span, t0, nb_flies, focal_fly, other_fly >>
swapVars == << swap_events, ds_pose_positions_allo, ds_pose_positions, ds_body_positions,
               ds_song_events, last_swap, before_swap, swapped_back >>
guiVars == << viewVars, swapVars >>
catVars == << cat_pc, ds_event_types, has_event_categories, ds_event_categories >>
storeVars == << store_pc, save_dataset, zarr_store, load_lazy, load_normalize_strings, load_dataset, load_returned >>
mainVars == << main_pc, main_error, main_dat_path, main_res_path, ignore_existing, is_ds, main_with_song, main_resample_video_data, main_target_sampling_rate, assemble_kwargs, main_ds >>
nanVars == << rn_pc, rn_arg, rn_x, rn_error >>
navVars == << cue_points, cue_index, STOP, frame_interval, presses, last_update, last_key >>
annotVars == << cb_index, sinet0, event_times, last_click >>
playVars == << play_stack >>
\* the variables that assemble does not touch
otherVars == << binVars, guiVars, catVars, storeVars, mainVars, nanVars, navVars, annotVars, playVars >>
vars == << assembleVars, otherVars >>

\* the locals of assemble before their first assignment
Unbound ==
    /\ error = None
    /\ calls = << >>
    /\ ss = << >> /\ last_sample_number = None /\ sampling_rate = None
    /\ with_tracks = FALSE /\ with_fixed_tracks = FALSE /\ body_pos = None
    /\ first_tracked_frame = None /\ last_tracked_frame = None
    /\ with_poses = FALSE /\ poses_from = None /\ pose_pos = None /\ pose_pos_allo = None
    /\ first_pose_frame = None /\ last_pose_frame = None
    /\ with_segmentation = FALSE /\ with_song = FALSE /\ res = << >>
    /\ with_segmentation_manual = FALSE /\ manual_events_seconds = None
    /\ last_sample_with_frame = None /\ first_sample = None /\ last_sample = None
    /\ step = None /\ target_samples = None /\ time = None /\ sampletime = None
    /\ frame_numbers = None /\ nearest_frame_time = None
    /\ dataset_data = << >> /\ dataset = None
\* no call of assemble is under way
AssembleIdle ==
    /\ pc = "idle"
    /\ keep_multi_channel = FALSE /\ resample_video_data = TRUE
    /\ target_sampling_rate = None
    /\ Unbound
\* no event binning run on its own is under way
BinIdle ==
    /\ ev_pc = "idle" /\ ev_in = << >> /\ ev_step = 0 /\ ev_last = 0 /\ ev_matrix = << >>

\* no viewer is open
GuiIdle ==
    /\ vr = None /\ tmax = 0 /\ span = 0 /\ t0 = 0
    /\ nb_flies = 0 /\ focal_fly = 0 /\ other_fly = 0
    /\ swap_events = << >>
    /\ ds_pose_positions_allo = << >> /\ ds_pose_positions = << >> /\ ds_body_positions = << >>
    /\ ds_song_events = << >>
    /\ last_swap = << >> /\ before_swap = << >> /\ swapped_back = FALSE

\* no event categories are being assigned
CatIdle ==
    /\ cat_pc = "idle" /\ ds_event_types = << >> /\ has_event_categories = FALSE /\ ds_event_categories = << >>

\* no dataset is being saved or loaded
StoreIdle ==
    /\ store_pc = "idle" /\ save_dataset = << >> /\ zarr_store = << >>
    /\ load_lazy = FALSE /\ load_normalize_strings = FALSE
    /\ load_dataset = << >> /\ load_returned = << >>

\* the entry point of the viewer is not running
MainIdle ==
    /\ main_pc = "idle" /\ main_error = None
    /\ main_dat_path = "dat" /\ main_res_path = "res"
    /\ ignore_existing = FALSE /\ is_ds = FALSE
    /\ main_with_song = TRUE /\ main_resample_video_data = TRUE
    /\ main_target_sampling_rate = 0
    /\ assemble_kwargs = << >> /\ main_ds = << >>

\* remove_nan is not running
NanIdle ==
    /\ rn_pc = "idle" /\ rn_arg = << >> /\ rn_x = << >> /\ rn_error = None

\* no navigation in a viewer is under way
NavIdle ==
    /\ cue_points = << >> /\ cue_index = 0 /\ STOP = TRUE /\ frame_interval = 0
    /\ presses = 0 /\ last_update = [called |-> FALSE, t0 |-> 0, span |-> 0] /\ last_key = "none"

\* no event type is selected and no annotation is edited
AnnotIdle ==
    /\ cb_index = 0 /\ sinet0 = << >> /\ event_times = << >> /\ last_click = << >>

\* no playback loop is active
PlayIdle ==
    /\ play_stack = << >>

\* the call assemble(datename, target_sampling_rate=.., keep_multi_channel=..,
\* resample_video_data=..) before its first statement
Init ==
    /\ pc = "load_times"
    /\ keep_multi_channel \in BOOLEAN
    /\ resample_video_data \in BOOLEAN
    /\ target_sampling_rate \in TargetRates
    /\ Unbound
    /\ BinIdle
    /\ PlayIdle
    /\ AnnotIdle
    /\ NavIdle
    /\ NanIdle
    /\ MainIdle
    /\ StoreIdle
    /\ GuiIdle
    /\ CatIdle

\* an exception leaves assemble
Raise(e) == pc' = "raised" /\ error' = e

(* --------------------------- the loaders -------------------------------- *)
\* LoadTimes with the failure caught and logged like that of the other loaders
LoadTimesCaught ==
    /\ pc = "load_times"
    /\ calls' = Append(calls, "load_times")
    /\ \/ /\ ss' \in TimingTables
          /\ last_sample_number' \in LastSampleNumbers(ss')
          /\ sampling_rate' \in SamplingRates
       \/ UNCHANGED timeVars
    /\ pc' = "load_tracks_fixed"
    /\ UNCHANGED << error, argVars, trackVars, poseVars, songVars, manualVars, gridVars, outVars >>
    /\ UNCHANGED otherVars

\* ld.load_times: the only loader outside a try block
LoadTimes ==
    /\ pc = "load_times"
    /\ calls' = Append(calls, "load_times")
    /\ \/ /\ ss' \in TimingTables
          /\ last_sample_number' \in LastSampleNumbers(ss')
          /\ sampling_rate' \in SamplingRates
          /\ pc' = "load_tracks_fixed"
          /\ UNCHANGED error
       \/ /\ Raise("load_times")
          /\ UNCHANGED timeVars
    /\ UNCHANGED << argVars, trackVars, poseVars, songVars, manualVars, gridVars, outVars >>
    /\ UNCHANGED otherVars

\* what ld.load_tracks returns for a file covering frames [r[1], r[2])
TracksLoaded(r) ==
    /\ body_pos' = [i \in 1..(r[2] - r[1]) |-> BodyPosAt(r[1] + i - 1)]
    /\ first_tracked_frame' = r[1]
    /\ last_tracked_frame' = r[2]
    /\ with_tracks' = TRUE

\* ld.load_tracks on <datename>_tracks_fixed.h5
LoadTracksFixed ==
    /\ pc = "load_tracks_fixed"
    /\ calls' = Append(calls, "load_tracks_fixed")
    /\ \/ /\ \E r \in TrackRanges : TracksLoaded(r)
          /\ with_fixed_tracks' = TRUE
          /\ pc' = "load_poses_dpk"
       \/ /\ pc' = "load_tracks_nonfixed"
          /\ UNCHANGED trackVars
    /\ UNCHANGED << error, argVars, timeVars, poseVars, songVars, manualVars, gridVars, outVars >>
    /\ UNCHANGED otherVars

\* int(x) and astype(np.uintp) of a float that is not NaN
IntOf(x) == x[1] \div x[2]

\* LoadTracksNonfixed that marks its tracks as fixed
LoadTracksNonfixedMarked ==
    /\ pc = "load_tracks_nonfixed"
    /\ calls' = Append(calls, "load_tracks_nonfixed")
    /\ \/ /\ \E r \in TrackRanges : TracksLoaded(r)
          /\ with_fixed_tracks' = TRUE
          /\ pc' = "load_poses_dpk"
          /\ UNCHANGED error
       \/ LET f0 == SsFrame(ss, 0)
              f1 == SsFrame(ss, last_sample_number)
          IN  IF f0 = NaN \/ f1 = NaN
              THEN /\ Raise("ValueError")
                   /\ UNCHANGED trackVars
              ELSE /\ first_tracked_frame' = IntOf(f0)
                   /\ last_tracked_frame' = IntOf(f1)
                   /\ pc' = "load_poses_dpk"
                   /\ UNCHANGED << error, with_tracks, with_fixed_tracks, body_pos >>
    /\ UNCHANGED << argVars, timeVars, poseVars, songVars, manualVars, gridVars, outVars >>
    /\ UNCHANGED otherVars

\* ld.load_tracks on <datename>_tracks.h5, tried after the fixed tracks
\* failed; if it fails too the frame range is estimated from the recording
LoadTracksNonfixed ==
    /\ pc = "load_tracks_nonfixed"
    /\ calls' = Append(calls, "load_tracks_nonfixed")
    /\ \/ /\ \E r \in TrackRanges : TracksLoaded(r)
          /\ pc' = "load_poses_dpk"
          /\ UNCHANGED << error, with_fixed_tracks >>
       \/ LET f0 == SsFrame(ss, 0)
              f1 == SsFrame(ss, last_sample_number)
          IN  IF f0 = NaN \/ f1 = NaN
              THEN \* int(nan)
                   /\ Raise("ValueError")
                   /\ UNCHANGED trackVars
              ELSE /\ first_tracked_frame' = IntOf(f0)
                   /\ last_tracked_frame' = IntOf(f1)
                   /\ pc' = "load_poses_dpk"
                   /\ UNCHANGED << error, with_tracks, with_fixed_tracks, body_pos >>
    /\ UNCHANGED << argVars, timeVars, poseVars, songVars, manualVars, gridVars, outVars >>
    /\ UNCHANGED otherVars

\* what a pose loader returns for a file covering frames [r[1], r[2])
PosesLoaded(r, from) ==
    /\ pose_pos' = [i \in 1..(r[2] - r[1]) |-> PosePosAt(r[1] + i - 1)]
    /\ pose_pos_allo' = [i \in 1..(r[2] - r[1]) |-> PosePosAlloAt(r[1] + i - 1)]
    /\ first_pose_frame' = r[1]
    /\ last_pose_frame' = r[2]
    /\ with_poses' = TRUE
    /\ poses_from' = from

\* ld.load_poses_deepposekit
LoadPosesDeepPoseKit ==
    /\ pc = "load_poses_dpk"
    /\ calls' = Append(calls, "load_poses_deepposekit")
    /\ \/ /\ \E r \in PoseRanges : PosesLoaded(r, "DeepPoseKit")
          /\ pc' = "load_segmentation"
       \/ /\ pc' = "load_poses_leap"
          /\ UNCHANGED poseVars
    /\ UNCHANGED << error, argVars, timeVars, trackVars, songVars, manualVars, gridVars, outVars >>
    /\ UNCHANGED otherVars

\* ld.load_poses_leap, only if DeepPoseKit poses were not loaded
LoadPosesLeap ==
    /\ pc = "load_poses_leap"
    /\ ~with_poses
    /\ calls' = Append(calls, "load_poses_leap")
    /\ \/ \E r \in PoseRanges : PosesLoaded(r, "LEAP")
       \/ UNCHANGED poseVars
    /\ pc' = "load_segmentation"
    /\ UNCHANGED << error, argVars, timeVars, trackVars, songVars, manualVars, gridVars, outVars >>
    /\ UNCHANGED otherVars

\* keys of the dict returned by ld.load_segmentation
SegmentationResult(n) ==
    [song |-> SongOf(n), pulse_times_samples |-> << 1, 4 >>, pulse_labels |-> << 1, 0 >>]

\* ld.load_segmentation
LoadSegmentation ==
    /\ pc = "load_segmentation"
    /\ calls' = Append(calls, "load_segmentation")
    /\ \/ /\ res' = SegmentationResult(last_sample_number)
          /\ with_segmentation' = TRUE
          /\ with_song' = TRUE
          /\ pc' = IF keep_multi_channel THEN "load_raw_song" ELSE "load_manual"
       \/ /\ pc' = "load_raw_song"
          /\ UNCHANGED songVars
    /\ UNCHANGED << error, argVars, timeVars, trackVars, poseVars, manualVars, gridVars, outVars >>
    /\ UNCHANGED otherVars

\* dict item assignment res[key] = val
SetKey(d, key, val) == [k \in (DOMAIN d) \cup {key} |-> IF k = key THEN val ELSE d[k]]

\* ld.load_raw_song and ld.merge_channels, run if there is no song yet or
\* the multi channel data is to be kept
LoadRawSong ==
    /\ pc = "load_raw_song"
    /\ ~with_song \/ keep_multi_channel
    /\ calls' = Append(calls, "load_raw_song")
    /\ \/ LET song_raw == SongOf(last_sample_number)
              res1 == IF ~with_song THEN SetKey(res, "song", song_raw) ELSE res
              res2 == IF keep_multi_channel THEN SetKey(res1, "song_raw", song_raw) ELSE res1
          IN  /\ res' = res2
              /\ with_song' = TRUE
              /\ UNCHANGED with_segmentation
       \/ UNCHANGED songVars
    /\ pc' = "load_manual"
    /\ UNCHANGED << error, argVars, timeVars, trackVars, poseVars, manualVars, gridVars, outVars >>
    /\ UNCHANGED otherVars

\* ld.load_manual_annotation
LoadManualAnnotation ==
    /\ pc = "load_manual"
    /\ calls' = Append(calls, "load_manual_annotation")
    /\ \/ /\ manual_events_seconds' \in ManualAnnotations
          /\ with_segmentation_manual' = TRUE
       \/ UNCHANGED manualVars
    /\ pc' = "grid"
    /\ UNCHANGED << error, argVars, timeVars, trackVars, poseVars, songVars, gridVars, outVars >>
    /\ UNCHANGED otherVars

(* ------------------------- canonical grid ------------------------------- *)
\* LastSampleWithFrame without the clamp to the last tracked frame
LastSampleWithFrameNoClamp(table, lsn, ltf) ==
    IF SsSample(table, ltf - 1) = OutOfRange THEN OutOfRange ELSE lsn

\* np.min((last_sample_number, ss.sample(frame=last_tracked_frame - 1)))
LastSampleWithFrame(table, lsn, ltf) ==
    LET s == SsSample(table, ltf - 1)
    IN  IF s = OutOfRange THEN OutOfRange ELSE Min(lsn, s)

\* step = int(sampling_rate / target_sampling_rate)
GridStep(sr, tsr) == sr \div tsr

\* the grid with last_sample as its last point
TargetSamplesInclusive(first, last, stp) == Arange(first, last + 1, stp)

\* np.arange(first_sample, last_sample, step, dtype=np.uintp)
TargetSamples(first, last, stp) == Arange(first, last, stp)

\* time = target_samples / sampling_rate
TimeOf(samples, sr) == [i \in 1..Len(samples) |-> << samples[i], sr >>]

\* a NaN converted with astype(np.uintp) is undefined: the platform gives 0
\* or the largest negative bit pattern (2^63 on x86-64, here scaled to 2^30)
NanAsUintp == { 0, 2 ^ 30 }

\* interpolator(target_samples).astype(np.uintp) of the nearest interpolator
NearestFrame(fsamples, fnumbers, targets, nanval) ==
    [i \in 1..Len(targets) |->
        LET v == Interp1dNearest(fsamples, fnumbers, targets[i])
        IN  IF v = NaN THEN nanval ELSE IntOf(v)]

\* lines 119-135: last sample, step, sample grid, times, nearest frames
BuildGrid ==
    /\ pc = "grid"
    /\ LET lswf == LastSampleWithFrame(ss, last_sample_number, last_tracked_frame)
           stp == GridStep(sampling_rate, target_sampling_rate)
           fn == Arange(first_tracked_frame, last_tracked_frame, 1)
           fs == SsSampleAll(ss, fn)
       IN  IF lswf = OutOfRange \/ OutOfRange \in Range(fs) \/ fn = << >>
           THEN /\ Raise("OutOfRangeError")
                /\ UNCHANGED gridVars
           ELSE IF stp = 0
           THEN /\ Raise("ZeroDivisionError")
                /\ last_sample_with_frame' = lswf
                /\ first_sample' = 0
                /\ last_sample' = lswf
                /\ step' = stp
                /\ UNCHANGED << target_samples, time, sampletime, frame_numbers, nearest_frame_time >>
           ELSE \E nanval \in NanAsUintp :
                /\ last_sample_with_frame' = lswf
                /\ first_sample' = 0
                /\ last_sample' = lswf
                /\ step' = stp
                /\ target_samples' = TargetSamples(0, lswf, stp)
                /\ time' = TimeOf(target_samples', sampling_rate)
                /\ sampletime' = TimeOf(Arange(0, lswf, 1), sampling_rate)
                /\ frame_numbers' = fn
                /\ nearest_frame_time' = NearestFrame(fs, fn, target_samples', nanval)
                /\ pc' = "song"
                /\ UNCHANGED error
    /\ UNCHANGED << calls, argVars, timeVars, trackVars, poseVars, songVars, manualVars, outVars >>
    /\ UNCHANGED otherVars

(* --------------------- the grid at recording scale ---------------------- *)
\* assemble at line 119, after the loaders, for a recording at 10 kHz with
\* fixed tracks and no poses, song or annotations

\* sampling rate of the recording (Hz)
GridSamplingRates == { 10000 }
\* target rates: 10000/1000 = 10, 10000/2000 = 5, int(10000/3000) = 3, and
\* the sampling rate itself
GridTargetRates == { 1000, 2000, 3000, 10000 }
\* timing tables: frames every 2500 or 5000 samples, and one with jitter
GridTimingTables ==
    { << 0, 2500, 5000, 7500, 10000 >>,
      << 0, 5000, 10000, 15000 >>,
      << 0, 2400, 5100, 7500, 10000, 12500 >> }
\* last sample numbers of the recording
GridLastSampleNumbers == { 9000, 10000, 10500 }

\* the loaders that ran, the tracks failing over to no other file
GridCalls ==
    << "load_times", "load_tracks_fixed", "load_poses_deepposekit", "load_poses_leap",
       "load_segmentation", "load_raw_song", "load_manual_annotation" >>

\* assemble(datename, target_sampling_rate=..) at line 119
InitGrid ==
    /\ pc = "grid"
    /\ error = None
    /\ calls = GridCalls
    /\ keep_multi_channel = FALSE
    /\ resample_video_data = TRUE
    /\ target_sampling_rate \in GridTargetRates
    /\ ss \in GridTimingTables
    /\ last_sample_number \in GridLastSampleNumbers
    /\ sampling_rate \in GridSamplingRates
    /\ with_tracks = TRUE /\ with_fixed_tracks = TRUE
    /\ first_tracked_frame \in { 0, 1 }
    /\ last_tracked_frame \in { Len(ss) - 1, Len(ss) }
    /\ body_pos = [i \in 1..(last_tracked_frame - first_tracked_frame) |->
                       BodyPosAt(first_tracked_frame + i - 1)]
    /\ with_poses = FALSE /\ poses_from = None /\ pose_pos = None /\ pose_pos_allo = None
    /\ first_pose_frame = None /\ last_pose_frame = None
    /\ with_segmentation = FALSE /\ with_song = FALSE /\ res = << >>
    /\ with_segmentation_manual = FALSE /\ manual_events_seconds = None
    /\ last_sample_with_frame = None /\ first_sample = None /\ last_sample = None
    /\ step = None /\ target_samples = None /\ time = None /\ sampletime = None
    /\ frame_numbers = None /\ nearest_frame_time = None
    /\ dataset_data = << >> /\ dataset = None
    /\ BinIdle
    /\ PlayIdle
    /\ AnnotIdle
    /\ NavIdle
    /\ NanIdle
    /\ MainIdle
    /\ GuiIdle
    /\ CatIdle
    /\ StoreIdle

NextGrid == BuildGrid

SpecGrid == InitGrid /\ [][NextGrid]_vars

(* --------------------------- data arrays -------------------------------- *)
\* python slice a[lo:hi] for 0 <= lo
Slice(a, lo, hi) == SubSeq(a, lo + 1, Min(hi, Len(a)))

\* xr.DataArray(data, dims, coords, attrs): data along the first dimension,
\* the coordinate of that dimension, nearest_frame on it, the attributes
DataArray(dim, data, coord, nf, attrs) ==
    [dim |-> dim, data |-> data, coord |-> coord, nearest_frame |-> nf, attrs |-> attrs]

\* a DataArray whose coords have no nearest_frame
DataArrayNoFrame(dim, data, coord, attrs) ==
    [dim |-> dim, data |-> data, coord |-> coord, attrs |-> attrs]

\* xarray refuses a coordinate whose length differs from the data's
DataArrayOk(a) ==
    /\ Len(a.data) = Len(a.coord)
    /\ "nearest_frame" \in DOMAIN a => Len(a.nearest_frame) = Len(a.coord)

\* lines 137-156: the merged song and the multi channel recording
BuildSong ==
    /\ pc = "song"
    /\ IF ~with_song
       THEN /\ pc' = "events"
            /\ UNCHANGED << error, outVars >>
       ELSE LET attrs == [sampling_rate_Hz |-> << sampling_rate, 1 >>]
                song == DataArrayNoFrame("sampletime", Slice(res.song, first_sample, last_sample),
                                         sampletime, attrs)
                d1 == SetKey(dataset_data, "song", song)
            IN  IF ~DataArrayOk(song)
                THEN Raise("ValueError") /\ UNCHANGED outVars
                ELSE IF ~keep_multi_channel
                THEN /\ dataset_data' = d1
                     /\ pc' = "events"
                     /\ UNCHANGED << error, dataset >>
                ELSE IF "song_raw" \notin DOMAIN res
                THEN /\ Raise("KeyError")
                     /\ dataset_data' = d1
                     /\ UNCHANGED dataset
                ELSE LET song_raw == DataArrayNoFrame("sampletime",
                                        Slice(res.song_raw, first_sample, last_sample),
                                        sampletime, attrs)
                     IN  IF ~DataArrayOk(song_raw)
                         THEN Raise("ValueError") /\ dataset_data' = d1 /\ UNCHANGED dataset
                         ELSE /\ dataset_data' = SetKey(d1, "song_raw", song_raw)
                              /\ pc' = "events"
                              /\ UNCHANGED << error, dataset >>
    /\ UNCHANGED << calls, argVars, timeVars, trackVars, poseVars, songVars, manualVars, gridVars >>
    /\ UNCHANGED otherVars

(* --------------------------- song events -------------------------------- *)
\* (val * sampling_rate).astype(np.uintp) for a time of k / TimeDen seconds
SecondsToSample(k, sr) == (k * sr) \div TimeDen

\* SegmentMask with only the onset and the offset of a segment
RECURSIVE SegmentMaskEnds(_)
SegmentMaskEnds(val) ==
    IF val = << >> THEN << >>
    ELSE << Head(val)[1], Head(val)[2] >> \o SegmentMaskEnds(Tail(val))

\* SegmentMask with the offset left out of the range of a segment
RECURSIVE SegmentMaskExclusive(_)
SegmentMaskExclusive(val) ==
    IF val = << >> THEN << >>
    ELSE Arange(Head(val)[1], Head(val)[2], 1) \o SegmentMaskExclusive(Tail(val))

\* np.concatenate([np.arange(t0, t1 + 1) for (t0, t1) in val])
RECURSIVE SegmentMask(_)
SegmentMask(val) ==
    IF val = << >> THEN << >>
    ELSE Arange(Head(val)[1], Head(val)[2] + 1, 1) \o SegmentMask(Tail(val))

\* lines 163-167: the rows of a two column annotation are filled in, those
\* of any other are taken as they are
ExpandEvents(val) ==
    IF val # << >> /\ Len(val[1]) = 2
    THEN SegmentMask(val)
    ELSE [i \in 1..Len(val) |-> val[i][1]]

\* lines 160-167: annotation times to samples, segments filled in
ManualEventsSamples(seconds, sr) ==
    [key \in DOMAIN seconds |->
        ExpandEvents([i \in 1..Len(seconds[key]) |->
                        [j \in 1..Len(seconds[key][i]) |-> SecondsToSample(seconds[key][i][j], sr)]])]

\* EventTimes that stops at the first sample outside the grid, as if the
\* samples came in ascending order
EventTimesUntilOutside(ev, stp, lswf) ==
    LET out == { i \in 1..Len(ev) : (ev[i] \div stp) * stp >= lswf }
        n == IF out = { } THEN Len(ev)
             ELSE (CHOOSE i \in out : \A j \in out : i <= j) - 1
    IN  { ev[i] \div stp : i \in 1..n }

\* EventTimes with the bin last_sample_with_frame / step let through
EventTimesInclusive(ev, stp, lswf) ==
    { b \in { ev[i] \div stp : i \in 1..Len(ev) } : b * stp <= lswf }

\* EventTimes with the bin of a sample rounded to the nearest one
EventTimesRounded(ev, stp, lswf) ==
    { b \in { (2 * ev[i] + stp) \div (2 * stp) : i \in 1..Len(ev) } : b * stp < lswf }

\* lines 181-182: the bins of one event type that pass the filter
EventTimes(ev, stp, lswf) ==
    { b \in { ev[i] \div stp : i \in 1..Len(ev) } : b * stp < lswf }

\* SongEventsNp with each event inverting its cell instead of setting it
SongEventsNpToggled(events, n, stp, lswf) ==
    [i \in 1..n |-> [key \in DOMAIN events |->
        /\ (i - 1) \in EventTimes(events[key], stp, lswf)
        /\ Cardinality({ j \in 1..Len(events[key]) : events[key][j] \div stp = i - 1 }) % 2 = 1]]

\* lines 177-183: song_events_np, n rows of False with the bins set to True
SongEventsNp(events, n, stp, lswf) ==
    [i \in 1..n |-> [key \in DOMAIN events |-> (i - 1) \in EventTimes(events[key], stp, lswf)]]

\* line 183 writes outside the n rows of song_events_np
OutsideMatrix(events, n, stp, lswf) ==
    \E key \in DOMAIN events : \E b \in EventTimes(events[key], stp, lswf) : b >= n

\* lines 177-193: the boolean matrix of the events on the grid
BuildEvents ==
    /\ pc = "events"
    /\ LET events == IF with_segmentation_manual
                     THEN ManualEventsSamples(manual_events_seconds, sampling_rate)
                     ELSE << >>
           song_events_np == SongEventsNp(events, Len(time), step, last_sample_with_frame)
           song_events == DataArray("time", song_events_np, time, nearest_frame_time,
                                    [sampling_rate_Hz |-> << sampling_rate, step >>])
       IN  IF with_segmentation
           THEN \* line 175 reads song_labels, a name that is never bound
                Raise("NameError") /\ UNCHANGED outVars
           ELSE IF ~with_segmentation_manual
           THEN /\ pc' = "body"
                /\ UNCHANGED << error, outVars >>
           ELSE IF OutsideMatrix(events, Len(time), step, last_sample_with_frame)
           THEN Raise("IndexError") /\ UNCHANGED outVars
           ELSE IF ~DataArrayOk(song_events)
           THEN Raise("ValueError") /\ UNCHANGED outVars
           ELSE /\ dataset_data' = SetKey(dataset_data, "song_events", song_events)
                /\ pc' = "body"
                /\ UNCHANGED << error, dataset >>
    /\ UNCHANGED << calls, argVars, timeVars, trackVars, poseVars, songVars, manualVars, gridVars >>
    /\ UNCHANGED otherVars

(* ------------------------- body positions ------------------------------- *)
\* Interp1dLinear that repeats the first and the last value outside the range
Interp1dLinearEdge(x, y, xnew) ==
    IF xnew < x[1] THEN << y[1], 1 >>
    ELSE IF xnew > x[Len(x)] THEN << y[Len(y)], 1 >>
    ELSE LET cnt == Cardinality({ i \in 1..Len(x) : x[i] < xnew })
             hi == Min(Max(cnt, 1), Len(x) - 1) + 1
             lo == hi - 1
         IN  << y[lo] * (x[hi] - x[lo]) + (y[hi] - y[lo]) * (xnew - x[lo]), x[hi] - x[lo] >>

\* scipy interp1d(x, y, kind='linear', bounds_error=False, fill_value=nan):
\* NaN outside [x[0], x[-1]], else the line through the two neighbours,
\* as the rational << numerator, denominator >>
Interp1dLinear(x, y, xnew) ==
    IF xnew < x[1] \/ xnew > x[Len(x)] THEN NaN
    ELSE LET cnt == Cardinality({ i \in 1..Len(x) : x[i] < xnew })
             hi == Min(Max(cnt, 1), Len(x) - 1) + 1
             lo == hi - 1
         IN  << y[lo] * (x[hi] - x[lo]) + (y[hi] - y[lo]) * (xnew - x[lo]), x[hi] - x[lo] >>

\* interpolator(target_samples)
Resample(fsamples, values, targets) ==
    [i \in 1..Len(targets) |-> Interp1dLinear(fsamples, values, targets[i])]

\* fps = 1 / np.nanmean(np.diff(frame_times)) as a rational
Fps(table, frames, sr) ==
    << sr * (Len(frames) - 1),
       SsSample(table, frames[Len(frames)]) - SsSample(table, frames[1]) >>

\* lines 196-224: body positions on the grid, or per frame
BuildBody ==
    /\ pc = "body"
    /\ IF ~with_tracks
       THEN /\ pc' = "poses"
            /\ UNCHANGED << error, body_pos, time, nearest_frame_time, frame_numbers, outVars >>
       ELSE LET frame_times == SsFrameTime(ss, frame_numbers, sampling_rate)
                fn == Arange(first_tracked_frame, last_tracked_frame, 1)
                bp == IF resample_video_data
                      THEN Resample(SsSampleAll(ss, fn), body_pos, target_samples)
                      ELSE body_pos
                t == IF resample_video_data THEN time ELSE frame_times
                nf == IF resample_video_data THEN nearest_frame_time ELSE frame_numbers
                positions == DataArray("time", bp, t, nf,
                                [sampling_rate_Hz |-> << sampling_rate, step >>,
                                 video_fps |-> Fps(ss, frame_numbers, sampling_rate),
                                 tracks_fixed |-> with_fixed_tracks])
            IN  /\ body_pos' = bp
                /\ time' = t
                /\ nearest_frame_time' = nf
                /\ frame_numbers' = IF resample_video_data THEN fn ELSE frame_numbers
                /\ IF ~DataArrayOk(positions)
                   THEN Raise("ValueError") /\ UNCHANGED outVars
                   ELSE /\ dataset_data' = SetKey(dataset_data, "body_positions", positions)
                        /\ pc' = "poses"
                        /\ UNCHANGED << error, dataset >>
    /\ UNCHANGED << calls, argVars, timeVars, with_tracks, with_fixed_tracks,
                    first_tracked_frame, last_tracked_frame, poseVars, songVars, manualVars,
                    last_sample_with_frame, first_sample, last_sample, step,
                    target_samples, sampletime >>
    /\ UNCHANGED otherVars

(* ------------------------------ poses ----------------------------------- *)
\* lines 227-274: egocentric and allocentric poses on the grid, or per frame
BuildPoses ==
    /\ pc = "poses"
    /\ IF ~with_poses
       THEN /\ pc' = "dataset"
            /\ UNCHANGED << error, pose_pos, pose_pos_allo, time, nearest_frame_time,
                            frame_numbers, outVars >>
       ELSE LET frame_times == SsFrameTime(ss, frame_numbers, sampling_rate)
                fn == Arange(first_pose_frame, last_pose_frame, 1)
                fs == SsSampleAll(ss, fn)
                pp == IF resample_video_data THEN Resample(fs, pose_pos, target_samples)
                      ELSE pose_pos
                ppa == IF resample_video_data THEN Resample(fs, pose_pos_allo, target_samples)
                       ELSE pose_pos_allo
                t == IF resample_video_data THEN time ELSE frame_times
                nf == IF resample_video_data THEN nearest_frame_time ELSE frame_numbers
                attrs == [sampling_rate_Hz |-> << sampling_rate, step >>,
                          video_fps |-> Fps(ss, frame_numbers, sampling_rate),
                          poses_from |-> poses_from]
                poses == DataArray("time", pp, t, nf, attrs)
                poses_allo == DataArray("time", ppa, t, nf, attrs)
            IN  /\ pose_pos' = pp
                /\ pose_pos_allo' = ppa
                /\ time' = t
                /\ nearest_frame_time' = nf
                /\ frame_numbers' = IF resample_video_data THEN fn ELSE frame_numbers
                /\ IF ~DataArrayOk(poses)
                   THEN Raise("ValueError") /\ UNCHANGED outVars
                   ELSE /\ dataset_data' = SetKey(SetKey(dataset_data, "pose_positions", poses),
                                                  "pose_positions_allo", poses_allo)
                        /\ pc' = "dataset"
                        /\ UNCHANGED << error, dataset >>
    /\ UNCHANGED << calls, argVars, timeVars, trackVars, with_poses, poses_from,
                    first_pose_frame, last_pose_frame, songVars, manualVars,
                    last_sample_with_frame, first_sample, last_sample, step,
                    target_samples, sampletime >>
    /\ UNCHANGED otherVars

(* ----------------------------- dataset ---------------------------------- *)
\* the arrays of a dict of arrays that have the dimension 'time'
TimeArrays(d) == { k \in DOMAIN d : d[k].dim = "time" }

\* xr.Dataset(dataset_data) merges the coordinates of its arrays and raises
\* a MergeError if two arrays disagree on the coordinate nearest_frame
\* (after aligning their time indexes)
MergeOk(d) ==
    \A k1, k2 \in TimeArrays(d) :
        /\ d[k1].coord = d[k2].coord
        /\ d[k1].nearest_frame = d[k2].nearest_frame

\* lines 277-281: the dataset is made and returned
MakeDataset ==
    /\ pc = "dataset"
    /\ IF MergeOk(dataset_data)
       THEN /\ dataset' = dataset_data
            /\ pc' = "done"
            /\ UNCHANGED error
       ELSE /\ Raise("MergeError")
            /\ UNCHANGED dataset
    /\ UNCHANGED << calls, argVars, timeVars, trackVars, poseVars, songVars, manualVars,
                    gridVars, dataset_data >>
    /\ UNCHANGED otherVars

Next ==
    \/ LoadTimes
    \/ LoadTracksFixed
    \/ LoadTracksNonfixed
    \/ LoadPosesDeepPoseKit
    \/ LoadPosesLeap
    \/ LoadSegmentation
    \/ LoadRawSong
    \/ LoadManualAnnotation
    \/ BuildGrid
    \/ BuildSong
    \/ BuildEvents
    \/ BuildBody
    \/ BuildPoses
    \/ MakeDataset

Spec == Init /\ [][Next]_vars

(* ===================== event binning on its own ========================= *)
\* lines 159-193 run on events given in samples: the arguments are drawn
\* from the sets below, the matrix is computed as BuildEvents computes it

\* the most annotation rows of one run, all event names together
MaxEvents == 3

\* step and last_sample_with_frame of the runs
BinGrids == { << 1, 6 >>, << 4, 10 >>, << 4, 12 >>, << 10, 215 >> }
\* samples of point events: at the start, around the first bin edge, around
\* the end of the grid, and two samples of one bin far from either
BinPoints(stp, lswf) ==
    { 0, stp - 1, stp, lswf - 1, lswf, lswf + stp }
        \cup (IF lswf > 209 THEN { 205, 209 } ELSE { })
\* (onset, offset) of segment events, shorter than, as long as and longer
\* than a step, and one that runs over the end of the grid
BinSegments(stp, lswf) ==
    { << 1, 1 >>, << 1, stp >>, << stp, 2 * stp >>, << 2 * stp - 1, 4 * stp + 1 >>,
      << lswf - 2, lswf + 1 >> }

\* song_events_np of the events, rows as many as the grid has samples
BinMatrix(in, stp, lswf) ==
    SongEventsNp([key \in DOMAIN in |-> ExpandEvents(in[key])],
                 Len(TargetSamples(0, lswf, stp)), stp, lswf)
\* the run writes outside its matrix
BinOutside(in, stp, lswf) ==
    OutsideMatrix([key \in DOMAIN in |-> ExpandEvents(in[key])],
                  Len(TargetSamples(0, lswf, stp)), stp, lswf)
\* the number of annotation rows
BinRows(in) == Len(in.pulse_manual) + Len(in.sine_manual)

InitBin ==
    /\ AssembleIdle
    /\ PlayIdle
    /\ AnnotIdle
    /\ NavIdle
    /\ NanIdle
    /\ MainIdle
    /\ StoreIdle
    /\ GuiIdle
    /\ CatIdle
    /\ ev_pc = "input"
    /\ \E g \in BinGrids :
        /\ ev_step = g[1]
        /\ ev_last = g[2]
        /\ \E s \in BinPoints(g[1], g[2]) : \E seg \in BinSegments(g[1], g[2]) :
            ev_in = [pulse_manual |-> << << s >> >>, sine_manual |-> << seg >>]
    /\ ev_matrix = << >>

\* the events are binned, or the write outside the matrix raises
Binned(in) ==
    IF BinOutside(in, ev_step, ev_last)
    THEN ev_pc' = "raised" /\ ev_matrix' = << >>
    ELSE ev_pc' = "binned" /\ ev_matrix' = BinMatrix(in, ev_step, ev_last)

\* the first run
BinRun ==
    /\ ev_pc = "input"
    /\ Binned(ev_in)
    /\ UNCHANGED << ev_in, ev_step, ev_last, assembleVars, guiVars, catVars, storeVars, mainVars, nanVars, navVars, annotVars, playVars >>

\* a run on the events with one more point event
BinAddPoint ==
    /\ ev_pc = "binned"
    /\ BinRows(ev_in) < MaxEvents
    /\ \E s \in BinPoints(ev_step, ev_last) :
        ev_in' = [ev_in EXCEPT !.pulse_manual = Append(@, << s >>)]
    /\ Binned(ev_in')
    /\ UNCHANGED << ev_step, ev_last, assembleVars, guiVars, catVars, storeVars, mainVars, nanVars, navVars, annotVars, playVars >>

\* a run on the events with one more segment event
BinAddSegment ==
    /\ ev_pc = "binned"
    /\ BinRows(ev_in) < MaxEvents
    /\ \E seg \in BinSegments(ev_step, ev_last) :
        ev_in' = [ev_in EXCEPT !.sine_manual = Append(@, seg)]
    /\ Binned(ev_in')
    /\ UNCHANGED << ev_step, ev_last, assembleVars, guiVars, catVars, storeVars, mainVars, nanVars, navVars, annotVars, playVars >>

\* the rows i and i + 1 of a sequence exchanged
Exchanged(q, i) ==
    [j \in 1..Len(q) |-> IF j = i THEN q[i + 1] ELSE IF j = i + 1 THEN q[i] ELSE q[j]]

\* a run on the events with two neighbouring rows of one name exchanged
BinReorder ==
    /\ ev_pc = "binned"
    /\ \E key \in DOMAIN ev_in : \E i \in 1..(Len(ev_in[key]) - 1) :
        ev_in' = [ev_in EXCEPT ![key] = Exchanged(@, i)]
    /\ Binned(ev_in')
    /\ UNCHANGED << ev_step, ev_last, assembleVars, guiVars, catVars, storeVars, mainVars, nanVars, navVars, annotVars, playVars >>

NextBin ==
    \/ BinRun
    \/ BinAddPoint
    \/ BinAddSegment
    \/ BinReorder

SpecBin == InitBin /\ [][NextBin]_vars

(* ======================== the viewer: fly swaps ========================= *)
\* gui/app.py PSV and psv.py: the position in the recording, the focal and
\* the other fly, the swap log and the three position arrays of the dataset

\* the samples of the song of the dataset on view
TMax == 6
\* the most entries of the swap log
MaxSwaps == 2

\* sampling rates of the song and of the arrays along 'time'
FsSong == 4
FsOther == 2
\* the numbers of flies of the datasets on view
NbFlies == { 2, 3 }
\* rows of the arrays along 'time'
ViewRows == (TMax * FsOther) \div FsSong
\* the positions before any swap: every row and fly has a value of its own
PositionsOf(base, n) == [r \in 1..ViewRows |-> [f \in 0..(n - 1) |-> base + 10 * r + f]]

\* song_events of the dataset on view: an event in every other row
EventsOnView == [r \in 1..ViewRows |-> [pulse_manual |-> r % 2 = 1, sine_manual |-> FALSE]]

\* np.clip(val, lo, hi)
Clip(val, lo, hi) == Min(Max(val, lo), hi)
\* the t0 setter
SetT0(val) == t0' = Clip(val, span \div 2, tmax - span \div 2)
\* index_other = int(t0 * fs_other / fs_song)
IndexOther(t) == (t * FsOther) \div FsSong

\* the log and the arrays
Snapshot ==
    [log |-> swap_events, allo |-> ds_pose_positions_allo,
     ego |-> ds_pose_positions, body |-> ds_body_positions]

\* PSV.__init__ and psv.py PSV.__init__
InitSwap ==
    /\ AssembleIdle
    /\ PlayIdle
    /\ AnnotIdle
    /\ NavIdle
    /\ NanIdle
    /\ MainIdle
    /\ StoreIdle
    /\ CatIdle
    /\ BinIdle
    /\ vr \in { None, "VideoReader" }
    /\ tmax = TMax
    /\ span = FsSong
    /\ t0 = span \div 2
    /\ nb_flies \in NbFlies
    /\ focal_fly = 0
    /\ other_fly = IF nb_flies > 1 THEN 1 ELSE 0
    /\ swap_events = << >>
    /\ ds_pose_positions_allo = PositionsOf(200, nb_flies)
    /\ ds_pose_positions = PositionsOf(100, nb_flies)
    /\ ds_body_positions = PositionsOf(0, nb_flies)
    /\ ds_song_events = EventsOnView
    /\ last_swap = << >>
    /\ before_swap = Snapshot
    /\ swapped_back = FALSE

\* jump_forward
JumpForward ==
    /\ SetT0(t0 + span \div 2)
    /\ UNCHANGED << vr, tmax, span, nb_flies, focal_fly, other_fly, swapVars, assembleVars, binVars, catVars, storeVars, mainVars, nanVars, navVars, annotVars, playVars >>

\* jump_reverse
JumpReverse ==
    /\ SetT0(t0 - span \div 2)
    /\ UNCHANGED << vr, tmax, span, nb_flies, focal_fly, other_fly, swapVars, assembleVars, binVars, catVars, storeVars, mainVars, nanVars, navVars, annotVars, playVars >>

\* change_focal_fly
ChangeFocalFly ==
    /\ LET tmp == (focal_fly + 1) % nb_flies
       IN  IF tmp = other_fly
           THEN other_fly' = focal_fly /\ focal_fly' = other_fly
           ELSE focal_fly' = tmp /\ UNCHANGED other_fly
    /\ UNCHANGED << vr, tmax, span, t0, nb_flies, swapVars, assembleVars, binVars, catVars, storeVars, mainVars, nanVars, navVars, annotVars, playVars >>

\* list.remove(e): the first entry equal to e is taken out
Remove(log, e) ==
    LET k == CHOOSE i \in 1..Len(log) : log[i] = e /\ \A j \in 1..(i - 1) : log[j] # e
    IN  SubSeq(log, 1, k - 1) \o SubSeq(log, k + 1, Len(log))

\* the entry is removed if the log holds it, appended if not
ToggleEntry(log, e) == IF e \in Range(log) THEN Remove(log, e) ELSE Append(log, e)

\* SwapColumns on all rows, also those before row i
SwapColumnsAllRows(a, i, fly1, fly2) ==
    [r \in 1..Len(a) |->
        [f \in DOMAIN a[r] |->
            IF f = fly2 THEN a[r][fly1] ELSE IF f = fly1 THEN a[r][fly2] ELSE a[r][f]]]

\* SwapColumns that writes the two columns one after the other
SwapColumnsInPlace(a, i, fly1, fly2) ==
    [r \in 1..Len(a) |->
        IF r - 1 >= i
        THEN [f \in DOMAIN a[r] |-> IF f = fly2 \/ f = fly1 THEN a[r][fly1] ELSE a[r][f]]
        ELSE a[r]]

\* a[i:, [fly2, fly1]] = a[i:, [fly1, fly2]]
SwapColumns(a, i, fly1, fly2) ==
    [r \in 1..Len(a) |->
        IF r - 1 >= i
        THEN [f \in DOMAIN a[r] |->
                IF f = fly2 THEN a[r][fly1] ELSE IF f = fly1 THEN a[r][fly2] ELSE a[r][f]]
        ELSE a[r]]

\* the log is toggled and the flies are swapped in the three arrays from
\* row i on
Swapped(i, fly1, fly2) ==
    LET e == << i, fly1, fly2 >>
    IN  /\ e \in Range(swap_events) \/ Len(swap_events) < MaxSwaps
        /\ swap_events' = ToggleEntry(swap_events, e)
        /\ ds_pose_positions_allo' = SwapColumns(ds_pose_positions_allo, i, fly1, fly2)
        /\ ds_pose_positions' = SwapColumns(ds_pose_positions, i, fly1, fly2)
        /\ ds_body_positions' = SwapColumns(ds_body_positions, i, fly1, fly2)
        /\ UNCHANGED ds_song_events
        /\ last_swap' = e
        /\ before_swap' = Snapshot
        /\ swapped_back' = (e = last_swap /\ e \in Range(swap_events))

\* gui/app.py PSV.swap_flies
SwapFlies ==
    /\ IF vr # None
       THEN Swapped(IndexOther(t0), focal_fly, other_fly)
       ELSE UNCHANGED swapVars
    /\ UNCHANGED << viewVars, assembleVars, binVars, catVars, storeVars, mainVars, nanVars, navVars, annotVars, playVars >>

\* psv.py swap_flies(self.ds, self.t0, self.swap_events), fly1 = 0, fly2 = 1
PsvSwapFlies ==
    /\ Swapped(IndexOther(t0), 0, 1)
    /\ UNCHANGED << viewVars, assembleVars, binVars, catVars, storeVars, mainVars, nanVars, navVars, annotVars, playVars >>

NextSwap ==
    \/ JumpForward
    \/ JumpReverse
    \/ ChangeFocalFly
    \/ SwapFlies
    \/ PsvSwapFlies

SpecSwap == InitSwap /\ [][NextSwap]_vars

(* ==================== the viewer: event categories ====================== *)
\* gui/app.py main, lines 841-849, run on the event types of a dataset; a
\* name is the sequence of its characters

\* the most event types of a dataset
MaxEventTypes == 2

\* names of event types
EventNames ==
    { << "s", "i", "n", "e" >>,
      << "s", "i", "n", "e", "_", "m", "a", "n", "u", "a", "l" >>,
      << "p", "u", "l", "s", "e", "_", "m", "a", "n", "u", "a", "l" >>,
      << "s", "y", "l", "l", "a", "b", "l", "e", "_", "a" >>,
      << "c", "o", "s", "i", "n", "e", "s" >>,
      << "S", "i", "n", "e" >>,
      << "s", "i", "n" >>,
      << "v", "i", "b", "r", "a", "t", "i", "o", "n" >> }
\* all sequences over a set with 1 .. n entries
SeqsUpTo(S, n) == UNION { [1..k -> S] : k \in 1..n }

\* startswith in place of Contains
StartsWith(sub, name) ==
    Len(sub) <= Len(name) /\ SubSeq(name, 1, Len(sub)) = sub

\* sub in name, for python strings
Contains(sub, name) ==
    \E i \in 1..(Len(name) - Len(sub) + 1) : SubSeq(name, i, i + Len(sub) - 1) = sub

\* 'segment' if 'sine' in evt or 'syllable' in evt else 'event'
CategoryOf(evt) ==
    IF Contains(<< "s", "i", "n", "e" >>, evt)
        \/ Contains(<< "s", "y", "l", "l", "a", "b", "l", "e" >>, evt)
    THEN "segment" ELSE "event"

\* a dataset with event types, with or without the coordinate event_categories
InitCategories ==
    /\ AssembleIdle
    /\ PlayIdle
    /\ AnnotIdle
    /\ NavIdle
    /\ NanIdle
    /\ MainIdle
    /\ StoreIdle
    /\ BinIdle
    /\ GuiIdle
    /\ cat_pc = "start"
    /\ ds_event_types \in SeqsUpTo(EventNames, MaxEventTypes)
    /\ has_event_categories \in BOOLEAN
    /\ ds_event_categories \in
        IF has_event_categories
        THEN [1..Len(ds_event_types) -> { "segment", "event" }]
        ELSE { << >> }

\* lines 842-849: the categories are added if the dataset has none
AssignEventCategories ==
    /\ cat_pc = "start"
    /\ IF ~has_event_categories
       THEN /\ ds_event_categories' =
                [i \in 1..Len(ds_event_types) |-> CategoryOf(ds_event_types[i])]
            /\ has_event_categories' = TRUE
       ELSE UNCHANGED << has_event_categories, ds_event_categories >>
    /\ cat_pc' = "done"
    /\ UNCHANGED << ds_event_types, assembleVars, binVars, guiVars, storeVars, mainVars, nanVars, navVars, annotVars, playVars >>

NextCategories == AssignEventCategories

SpecCategories == InitCategories /\ [][NextCategories]_vars

(* ========================= save and load ================================ *)
\* xarray_behave.py save, _normalize_strings and load, on a dataset of one
\* array along 'time' with the coordinates time and event_types

\* the most time points of a stored dataset
MaxStored == 2

\* what a call returns that ends without a return statement
NoDataset == << >>

\* the datasets handed to save: the shape of the array, the values of the
\* time coordinate, the string type and values of the event_types coordinate
\* and the attribute tracks_fixed
StoredDatasets ==
    UNION { [ shape : { n }, time : [1..n -> 0..2],
              event_types_dtype : { "U", "S16" },
              event_types : { << "sine" >>, << "pulse" >> },
              tracks_fixed : BOOLEAN ] : n \in 1..MaxStored }

\* lines 428-435: byte strings of the coordinates become python strings, the
\* characters stay
NormalizeStrings(d) ==
    IF d.event_types_dtype = "S16" THEN [d EXCEPT !.event_types_dtype = "U"] ELSE d

\* lines 438-458: the value of the call load(..) whose local dataset is d;
\* the function ends after line 458 without a return statement
LoadReturn(d) == NoDataset

\* save(savepath, dataset) and load(savepath, lazy, normalize_strings)
\* before their first statements
InitStore ==
    /\ AssembleIdle
    /\ PlayIdle
    /\ AnnotIdle
    /\ NavIdle
    /\ NanIdle
    /\ MainIdle
    /\ BinIdle
    /\ GuiIdle
    /\ CatIdle
    /\ store_pc = "save"
    /\ save_dataset \in StoredDatasets
    /\ zarr_store = << >>
    /\ load_lazy \in BOOLEAN
    /\ load_normalize_strings \in BOOLEAN
    /\ load_dataset = << >>
    /\ load_returned = << >>

\* lines 418-425: the dataset is written to the store
Save ==
    /\ store_pc = "save"
    /\ zarr_store' = save_dataset
    /\ store_pc' = "load"
    /\ UNCHANGED << save_dataset, load_lazy, load_normalize_strings, load_dataset, load_returned >>
    /\ UNCHANGED << assembleVars, binVars, guiVars, catVars, mainVars, nanVars, navVars, annotVars, playVars >>

\* lines 438-458: the store is opened and read, the strings normalized, and
\* the function ends
Load ==
    /\ store_pc = "load"
    /\ load_dataset' =
           IF load_normalize_strings THEN NormalizeStrings(zarr_store) ELSE zarr_store
    /\ load_returned' = LoadReturn(load_dataset')
    /\ store_pc' = "loaded"
    /\ UNCHANGED << save_dataset, zarr_store, load_lazy, load_normalize_strings >>
    /\ UNCHANGED << assembleVars, binVars, guiVars, catVars, mainVars, nanVars, navVars, annotVars, playVars >>

NextStore == Save \/ Load

SpecStore == InitStore /\ [][NextStore]_vars

(* ==================== the viewer: the entry point ======================= *)
\* gui/app.py main, lines 807-836: an existing dataset file is loaded, or a
\* new dataset is assembled

\* the parameters of assemble (xarray_behave.py lines 12-13)
AssembleParameters ==
    { "datename", "root", "dat_path", "res_path", "target_sampling_rate",
      "keep_multi_channel", "resample_video_data" }

\* the keyword arguments main passes to assemble (lines 829-832); datename
\* is passed by position
AssembleKwargs(with_song_arg, tsr, rvd) ==
    [ root |-> "", dat_path |-> "dat", res_path |-> "res",
      fix_fly_indices |-> FALSE, include_song |-> with_song_arg,
      keep_multi_channel |-> TRUE, target_sampling_rate |-> tsr,
      resample_video_data |-> rvd ]

\* python binds a call's keyword arguments to the parameters of the
\* function, and raises TypeError for a keyword that is no parameter
BindsTo(kwargs, parameters) == DOMAIN kwargs \subseteq parameters

\* a dataset as stored in an existing file
ExistingDataset == CHOOSE d \in StoredDatasets : d.shape = MaxStored

\* main(datename, dat_path=.., res_path=.., ignore_existing=.., ..) before
\* its first statement, the dataset file existing or not
InitMain ==
    /\ AssembleIdle
    /\ PlayIdle
    /\ AnnotIdle
    /\ NavIdle
    /\ NanIdle
    /\ BinIdle
    /\ GuiIdle
    /\ CatIdle
    /\ StoreIdle
    /\ main_pc = "start"
    /\ main_error = None
    /\ main_dat_path \in { "dat", "data" }
    /\ main_res_path \in { "res", "results" }
    /\ ignore_existing \in BOOLEAN
    /\ is_ds \in BOOLEAN
    /\ main_with_song \in BOOLEAN
    /\ main_resample_video_data \in BOOLEAN
    /\ main_target_sampling_rate \in { 1000, 10000 }
    /\ assemble_kwargs = << >>
    /\ main_ds = << >>

\* lines 813-826: ds = xb.load(loadname, lazy=True), then 'song_events' in ds
\* which raises TypeError for a ds that is None
MainLoad ==
    /\ main_pc = "start"
    /\ ~ignore_existing /\ is_ds
    /\ main_ds' = LoadReturn(NormalizeStrings(ExistingDataset))
    /\ IF main_ds' = NoDataset
       THEN main_pc' = "raised" /\ main_error' = "TypeError"
       ELSE main_pc' = "loaded" /\ UNCHANGED main_error
    /\ UNCHANGED << main_dat_path, main_res_path, ignore_existing, is_ds, main_with_song, main_resample_video_data, main_target_sampling_rate, assemble_kwargs >>
    /\ UNCHANGED << assembleVars, binVars, guiVars, catVars, storeVars, nanVars, navVars, annotVars, playVars >>

\* lines 827-832: ds = xb.assemble(datename, root=root, dat_path='dat', ..)
MainAssemble ==
    /\ main_pc = "start"
    /\ ignore_existing \/ ~is_ds
    /\ assemble_kwargs' = AssembleKwargs(main_with_song, main_target_sampling_rate,
                                         main_resample_video_data)
    /\ IF BindsTo(assemble_kwargs', AssembleParameters)
       THEN main_pc' = "assembling" /\ UNCHANGED main_error
       ELSE main_pc' = "raised" /\ main_error' = "TypeError"
    /\ UNCHANGED << main_dat_path, main_res_path, ignore_existing, is_ds, main_with_song, main_resample_video_data, main_target_sampling_rate, main_ds >>
    /\ UNCHANGED << assembleVars, binVars, guiVars, catVars, storeVars, nanVars, navVars, annotVars, playVars >>

NextMain == MainLoad \/ MainAssemble

SpecMain == InitMain /\ [][NextMain]_vars

(* ============================ remove_nan ================================ *)
\* metrics.py remove_nan, lines 22-26, on a 1-D array of floats

\* the longest array
MaxLen == 4

\* the entries of the arrays: NaN and two numbers
NanEntries == { NaN, << 0, 1 >>, << 4, 1 >> }

\* np.flatnonzero(mask), as positions 1 .. Len, in increasing order
FlatNonzero(mask) ==
    LET S == { i \in 1..Len(mask) : mask[i] }
    IN  [k \in 1..Cardinality(S) |->
            CHOOSE i \in S : Cardinality({ j \in S : j < i }) = k - 1]

\* np.interp(x, xp, fp) for increasing xp: linear between the two points of
\* xp around x, fp[0] below xp[0] and fp[-1] above xp[-1]
NpInterp(x, xp, fp) ==
    IF x <= xp[1] THEN fp[1]
    ELSE IF x >= xp[Len(xp)] THEN fp[Len(xp)]
    ELSE LET k == CHOOSE j \in 1..(Len(xp) - 1) : xp[j] <= x /\ x < xp[j + 1]
             w == xp[k + 1] - xp[k]
         IN  << fp[k][1] * fp[k + 1][2] * (xp[k + 1] - x) + fp[k + 1][1] * fp[k][2] * (x - xp[k]),
                fp[k][2] * fp[k + 1][2] * w >>

\* remove_nan(x) before its first statement
InitNan ==
    /\ AssembleIdle
    /\ PlayIdle
    /\ AnnotIdle
    /\ NavIdle
    /\ BinIdle
    /\ GuiIdle
    /\ CatIdle
    /\ StoreIdle
    /\ MainIdle
    /\ rn_pc = "start"
    /\ rn_arg \in SeqsUpTo(NanEntries, MaxLen)
    /\ rn_x = rn_arg
    /\ rn_error = None

\* lines 24-26: the NaN entries are assigned the interpolated values; np.interp
\* raises ValueError for an array without a number
RemoveNan ==
    /\ rn_pc = "start"
    /\ LET mask == [i \in 1..Len(rn_x) |-> rn_x[i] = NaN]
           xp == FlatNonzero([i \in 1..Len(rn_x) |-> ~mask[i]])
           fp == [k \in 1..Len(xp) |-> rn_x[xp[k]]]
       IN  IF xp = << >>
           THEN rn_pc' = "raised" /\ rn_error' = "ValueError" /\ UNCHANGED rn_x
           ELSE /\ rn_x' = [i \in 1..Len(rn_x) |->
                                IF mask[i] THEN NpInterp(i, xp, fp) ELSE rn_x[i]]
                /\ rn_pc' = "done"
                /\ UNCHANGED rn_error
    /\ UNCHANGED rn_arg
    /\ UNCHANGED << assembleVars, binVars, guiVars, catVars, storeVars, mainVars, navVars, annotVars, playVars >>

NextNan == RemoveNan

SpecNan == InitNan /\ [][NextNan]_vars

(* ===================== the viewer: navigation =========================== *)
\* gui/app.py PSV: the t0 and span setters and the handlers that move or
\* zoom the view; the values are chosen so that span / 2 is a whole number

\* sampling rate of the song, and the frame rate of the video
NavFsSong == 800
NavFrameRate == 8
\* the smallest span the span setter lets through (line 294)
MinSpan == 200
\* lengths of the song in samples
NavTMaxes == { 1000, 1600, 2400 }
\* the cue points given to the viewer
NavCuePoints == { << >>, << 300 >>, << 100, 700, 2300 >> }
\* the sample a go-to dialog asks for
NavTargets == { 0, 500, 2000 }

\* the swap log and the arrays of the dataset play no part
SwapIdle ==
    /\ swap_events = << >>
    /\ ds_pose_positions_allo = << >> /\ ds_pose_positions = << >> /\ ds_body_positions = << >>
    /\ ds_song_events = << >>
    /\ last_swap = << >> /\ before_swap = << >> /\ swapped_back = FALSE

\* the span setter, lines 291-295
SetSpan(val) == span' = Min(Max(MinSpan, val), tmax)

\* PSV.__init__, lines 35-112
InitNav ==
    /\ AssembleIdle
    /\ PlayIdle
    /\ AnnotIdle
    /\ BinIdle
    /\ CatIdle
    /\ StoreIdle
    /\ MainIdle
    /\ NanIdle
    /\ SwapIdle
    /\ vr = "VideoReader"
    /\ tmax \in NavTMaxes
    /\ span = NavFsSong
    /\ t0 = span \div 2
    /\ nb_flies = 2 /\ focal_fly = 0 /\ other_fly = 1
    /\ cue_points \in NavCuePoints
    /\ cue_index = 0
    /\ STOP = TRUE
    /\ frame_interval = NavFsSong \div NavFrameRate
    /\ presses = 0
    /\ last_update = [called |-> FALSE, t0 |-> 0, span |-> 0]
    /\ last_key = "none"

\* what the handlers of the navigation leave alone
NavFrame ==
    /\ UNCHANGED << vr, tmax, nb_flies, focal_fly, other_fly, frame_interval, presses, last_update, last_key >>
    /\ UNCHANGED << swapVars, assembleVars, binVars, catVars, storeVars, mainVars, nanVars, annotVars, playVars >>

\* single_frame_reverse, lines 427-428
SingleFrameReverse ==
    /\ SetT0(t0 - frame_interval)
    /\ UNCHANGED << span, cue_points, cue_index, STOP >>
    /\ NavFrame

\* single_frame_advance, lines 430-431
SingleFrameAdvance ==
    /\ SetT0(t0 + frame_interval)
    /\ UNCHANGED << span, cue_points, cue_index, STOP >>
    /\ NavFrame

\* set_prev_cuepoint, lines 409-413
SetPrevCuepoint ==
    /\ IF cue_points # << >>
       THEN /\ cue_index' = Max(0, cue_index - 1)
            /\ SetT0(cue_points[cue_index' + 1])
       ELSE UNCHANGED << cue_index, t0 >>
    /\ UNCHANGED << span, cue_points, STOP >>
    /\ NavFrame

\* set_next_cuepoint, lines 415-419
SetNextCuepoint ==
    /\ IF cue_points # << >>
       THEN /\ cue_index' = Min(cue_index + 1, Len(cue_points) - 1)
            /\ SetT0(cue_points[cue_index' + 1])
       ELSE UNCHANGED << cue_index, t0 >>
    /\ UNCHANGED << span, cue_points, STOP >>
    /\ NavFrame

\* zoom_in_song, lines 421-422
ZoomInSong ==
    /\ SetSpan(span \div 2)
    /\ UNCHANGED << t0, cue_points, cue_index, STOP >>
    /\ NavFrame

\* zoom_out_song, lines 424-425
ZoomOutSong ==
    /\ SetSpan(span * 2)
    /\ UNCHANGED << t0, cue_points, cue_index, STOP >>
    /\ NavFrame

\* go_to_frame and go_to_time, lines 439-450, the dialog accepted
GoTo ==
    /\ \E val \in NavTargets : SetT0(val)
    /\ UNCHANGED << span, cue_points, cue_index, STOP >>
    /\ NavFrame

\* toggle_playvideo, lines 385-388
TogglePlayvideo ==
    /\ STOP' = ~STOP
    /\ UNCHANGED << t0, span, cue_points, cue_index >>
    /\ NavFrame

\* play_video, lines 521-535: one round of the loop
PlayVideo ==
    /\ ~STOP
    /\ SetT0(t0 + frame_interval)
    /\ UNCHANGED << span, cue_points, cue_index, STOP >>
    /\ NavFrame

NextNav ==
    \/ SingleFrameReverse \/ SingleFrameAdvance
    \/ JumpForward \/ JumpReverse
    \/ SetPrevCuepoint \/ SetNextCuepoint
    \/ ZoomInSong \/ ZoomOutSong
    \/ GoTo
    \/ TogglePlayvideo \/ PlayVideo

SpecNav == InitNav /\ [][NextNav]_vars

(* ======================= psv.py: navigation ============================= *)
\* psv.py PSV: keyPressed with the clamp at its end, update and the playback
\* loop; t0 and span are whole numbers after every key, halves are computed
\* on twice the value

\* the most key presses and rounds of the playback loop
MaxPresses == 3

\* span after __init__ (line 108), the smallest span after a key (line 241),
\* frame_interval (line 129) and the rate of play (line 305)
PsvSpan == 100000
PsvMinSpan == 500
PsvFrameInterval == 100
PsvRate == 100
\* lengths of the song in samples
PsvTMaxes == { 100000, 150000, 400000 }
\* the cue points given to the viewer
PsvCuePoints == { << >>, << 60000 >>, << 20000, 120000, 300000 >> }

\* int(n / 2): python's int() cuts towards zero
IntHalf(n) == IF n >= 0 THEN n \div 2 ELSE -((-n) \div 2)

\* psv.py PSV.__init__, lines 102-181, which ends with update()
InitPsv ==
    /\ AssembleIdle
    /\ PlayIdle
    /\ AnnotIdle
    /\ BinIdle
    /\ CatIdle
    /\ StoreIdle
    /\ MainIdle
    /\ NanIdle
    /\ SwapIdle
    /\ vr = "VideoReaderNP"
    /\ tmax \in PsvTMaxes
    /\ span = PsvSpan
    /\ t0 = IntHalf(span)
    /\ nb_flies = 2 /\ focal_fly = 0 /\ other_fly = 1
    /\ cue_points \in PsvCuePoints
    /\ cue_index = 0
    /\ STOP = TRUE
    /\ frame_interval = PsvFrameInterval
    /\ presses = 0
    /\ last_update = [called |-> TRUE, t0 |-> t0, span |-> span]
    /\ last_key = "none"

\* update() draws the view around t0 with the span
Update == last_update' = [called |-> TRUE, t0 |-> t0', span |-> span']

\* lines 241-245, for t0 = t2 / 2 and span = sp2 / 2 as the key left them:
\* span = int(max(500, span)), t0 = int(np.clip(t0, span/2, tmax - span/2)),
\* and update() if the playback is stopped
KeyTail(t2, sp2) ==
    /\ span' = Max(PsvMinSpan, IntHalf(sp2))
    /\ t0' = IntHalf(Clip(t2, span', 2 * tmax - span'))
    /\ IF STOP' THEN Update ELSE UNCHANGED last_update
    /\ presses' = presses + 1

\* what keyPressed and play leave alone
PsvFrame ==
    /\ UNCHANGED << vr, tmax, nb_flies, focal_fly, other_fly, frame_interval, cue_points >>
    /\ UNCHANGED << swapVars, assembleVars, binVars, catVars, storeVars, mainVars, nanVars, annotVars, playVars >>

\* keyPressed: Key_Left, lines 187-188
PsvKeyLeft ==
    /\ presses < MaxPresses
    /\ last_key' = "Left"
    /\ UNCHANGED << cue_index, STOP >>
    /\ KeyTail(2 * (t0 - frame_interval), 2 * span)
    /\ PsvFrame

\* keyPressed: Key_Right, lines 189-190
PsvKeyRight ==
    /\ presses < MaxPresses
    /\ last_key' = "Right"
    /\ UNCHANGED << cue_index, STOP >>
    /\ KeyTail(2 * (t0 + frame_interval), 2 * span)
    /\ PsvFrame

\* keyPressed: Key_A, lines 191-192
PsvKeyA ==
    /\ presses < MaxPresses
    /\ last_key' = "A"
    /\ UNCHANGED << cue_index, STOP >>
    /\ KeyTail(2 * t0 - span, 2 * span)
    /\ PsvFrame

\* keyPressed: Key_D, lines 193-194
PsvKeyD ==
    /\ presses < MaxPresses
    /\ last_key' = "D"
    /\ UNCHANGED << cue_index, STOP >>
    /\ KeyTail(2 * t0 + span, 2 * span)
    /\ PsvFrame

\* keyPressed: Key_W, lines 195-196
PsvKeyW ==
    /\ presses < MaxPresses
    /\ last_key' = "W"
    /\ UNCHANGED << cue_index, STOP >>
    /\ KeyTail(2 * t0, span)
    /\ PsvFrame

\* keyPressed: Key_S, lines 197-198
PsvKeyS ==
    /\ presses < MaxPresses
    /\ last_key' = "S"
    /\ UNCHANGED << cue_index, STOP >>
    /\ KeyTail(2 * t0, 4 * span)
    /\ PsvFrame

\* keyPressed: Key_K, lines 208-213
PsvKeyK ==
    /\ presses < MaxPresses
    /\ last_key' = "K"
    /\ cue_index' = IF cue_points # << >> THEN Max(0, cue_index - 1) ELSE cue_index
    /\ UNCHANGED STOP
    /\ KeyTail(IF cue_points # << >> THEN 2 * cue_points[cue_index' + 1] ELSE 2 * t0, 2 * span)
    /\ PsvFrame

\* keyPressed: Key_L, lines 214-218
PsvKeyL ==
    /\ presses < MaxPresses
    /\ last_key' = "L"
    /\ cue_index' = IF cue_points # << >> THEN Min(cue_index + 1, Len(cue_points) - 1)
                     ELSE cue_index
    /\ UNCHANGED STOP
    /\ KeyTail(IF cue_points # << >> THEN 2 * cue_points[cue_index' + 1] ELSE 2 * t0, 2 * span)
    /\ PsvFrame

\* keyPressed: a key that neither moves nor zooms the view (P, M, C, O)
PsvKeyOther ==
    /\ presses < MaxPresses
    /\ last_key' = "other"
    /\ UNCHANGED << cue_index, STOP >>
    /\ KeyTail(2 * t0, 2 * span)
    /\ PsvFrame

\* keyPressed: Key_Space, lines 231-239. With the playback stopped it enters
\* play(), and lines 241-245 run when play() returns; during the playback
\* it stops it, and lines 241-245 run with STOP set
PsvKeySpace ==
    /\ presses < MaxPresses
    /\ last_key' = "Space"
    /\ IF STOP
       THEN /\ STOP' = FALSE
            /\ presses' = presses + 1
            /\ UNCHANGED << t0, span, last_update >>
       ELSE /\ STOP' = TRUE
            /\ KeyTail(2 * t0, 2 * span)
    /\ UNCHANGED cue_index
    /\ PsvFrame

\* play, lines 305-312: one round of the loop
PsvPlay ==
    /\ presses < MaxPresses
    /\ last_key' = "play"
    /\ ~STOP
    /\ t0' = t0 + PsvRate
    /\ UNCHANGED span
    /\ Update
    /\ presses' = presses + 1
    /\ UNCHANGED << cue_index, STOP >>
    /\ PsvFrame

NextPsv ==
    \/ PsvKeyLeft \/ PsvKeyRight \/ PsvKeyA \/ PsvKeyD \/ PsvKeyW \/ PsvKeyS
    \/ PsvKeyK \/ PsvKeyL \/ PsvKeyOther \/ PsvKeySpace
    \/ PsvPlay

SpecPsv == InitPsv /\ [][NextPsv]_vars

(* ================== the viewer: focal and other fly ===================== *)
\* gui/app.py PSV.change_focal_fly and PSV.on_video_clicked; a position is
\* one float per row and fly, NaN where the pose is missing

\* the most flies of a dataset on view
MaxFlies == 4

\* box_size (line 35)
BoxSize == 200
\* float infinity
Inf == << 1, 0 >>
\* where the mouse is clicked on the video
MouseClicks == { 0, 215, 400 }

\* pose_positions_allo at the thorax: with all poses, with poses missing in
\* the first row and for fly 1 in every row, and with flies that stay put
FlyPositions(n) ==
    { [r \in 1..ViewRows |-> [f \in 0..(n - 1) |-> << 100 * r + 15 * f, 1 >>]],
      [r \in 1..ViewRows |-> [f \in 0..(n - 1) |->
          IF r = 1 \/ f = 1 THEN NaN ELSE << 100 * r + 15 * f, 1 >>]],
      [r \in 1..ViewRows |-> [f \in 0..(n - 1) |-> << 400 - 100 * f, 1 >>]] }

\* fly_dist without line 599
FlyDistAll(pos, focal, crop, mouse) ==
    [f \in DOMAIN pos |->
        IF pos[f] = NaN \/ (crop /\ pos[focal] = NaN) THEN NaN
        ELSE LET c == IF crop THEN pos[focal][1] + BoxSize \div 2 ELSE 0
                 d == pos[f][1] - c - mouse
             IN  << d * d, 1 >>]

\* lines 590-599: the squared distance of every fly to the click, in the
\* coordinates of the cropped box if crop is set, and infinity for the focal
\* fly
FlyDist(pos, focal, crop, mouse) ==
    [f \in DOMAIN pos |->
        IF f = focal THEN Inf
        ELSE IF pos[f] = NaN \/ (crop /\ pos[focal] = NaN) THEN NaN
        ELSE LET c == IF crop THEN pos[focal][1] + BoxSize \div 2 ELSE 0
                 d == pos[f][1] - c - mouse
             IN  << d * d, 1 >>]

\* np.argmin: the first NaN if there is one, else the first smallest entry
ArgMin(a) ==
    LET nans == { f \in DOMAIN a : a[f] = NaN }
        fin == { f \in DOMAIN a : a[f] # NaN /\ a[f] # Inf }
        First(S) == CHOOSE f \in S : \A g \in S : f <= g
    IN  IF nans # {} THEN First(nans)
        ELSE IF fin = {} THEN First(DOMAIN a)
        ELSE First({ f \in fin : \A g \in fin : a[f][1] <= a[g][1] })

\* PSV.__init__, lines 71-73, on a dataset with poses
InitFly ==
    /\ AssembleIdle
    /\ PlayIdle
    /\ AnnotIdle
    /\ BinIdle
    /\ CatIdle
    /\ StoreIdle
    /\ MainIdle
    /\ NanIdle
    /\ NavIdle
    /\ vr = "VideoReader"
    /\ tmax = TMax
    /\ span = FsSong
    /\ t0 = span \div 2
    /\ nb_flies \in 2..MaxFlies
    /\ focal_fly = 0
    /\ other_fly = IF nb_flies > 1 THEN 1 ELSE 0
    /\ swap_events = << >>
    /\ ds_pose_positions_allo \in FlyPositions(nb_flies)
    /\ ds_pose_positions = << >> /\ ds_body_positions = << >>
    /\ ds_song_events = << >>
    /\ last_swap = << >> /\ before_swap = << >> /\ swapped_back = FALSE

\* on_video_clicked, lines 588-602; crop is as the user has toggled it
OnVideoClicked ==
    /\ \E mouse \in MouseClicks, crop \in BOOLEAN :
        other_fly' = ArgMin(FlyDist(ds_pose_positions_allo[IndexOther(t0) + 1],
                                    focal_fly, crop, mouse))
    /\ UNCHANGED << vr, tmax, span, t0, nb_flies, focal_fly >>
    /\ UNCHANGED << swapVars, assembleVars, binVars, catVars, storeVars, mainVars, nanVars, navVars, annotVars, playVars >>

NextFly == ChangeFocalFly \/ OnVideoClicked \/ JumpForward \/ JumpReverse

SpecFly == InitFly /\ [][NextFly]_vars

(* ================= the viewer: deleting events in view ================== *)
\* gui/app.py PSV.delete_current_events and PSV.delete_all_events on the
\* song_events of the dataset, with the zooms and jumps that set the view

\* sampling rate of song_events (fs_other)
NavFsOther == 8
\* the deletions of one session
MaxDeletes == 1
\* the event types of the dataset, all manual: column c of song_events is
\* event type c, and entry c of the combo box selects it (entry 0 is
\* "No annotation")
EventTypes == << "sine_manual", "pulse_manual", "syllable_manual" >>
\* event_categories of the event types
EventCategories == << "segment", "event", "segment" >>

\* int(n / d) for d > 0: python's int() cuts towards zero
IntDiv(n, d) == IF n >= 0 THEN n \div d ELSE -((-n) \div d)

\* index_other = int(t0 * fs_other / fs_song)
NavIndexOther == IntDiv(t0 * NavFsOther, NavFsSong)

\* the rows (from 0) of an array of n rows that the slice [lo:hi] selects: a
\* negative bound counts from the end of the array
SliceRows(lo, hi, n) ==
    LET start == IF lo < 0 THEN Max(n + lo, 0) ELSE Min(lo, n)
        stop == IF hi < 0 THEN Max(n + hi, 0) ELSE Min(hi, n)
    IN  { r \in 0..(n - 1) : start <= r /\ r < stop }

\* the rows of song_events[int(index_other - span_index):int(index_other + span_index)]
\* with span_index = span / (2 * fs_song / fs_other)
RowsInView ==
    SliceRows(IntDiv(2 * NavFsSong * NavIndexOther - span * NavFsOther, 2 * NavFsSong),
              IntDiv(2 * NavFsSong * NavIndexOther + span * NavFsOther, 2 * NavFsSong),
              Len(ds_song_events))

\* song_events[rows, columns] = False
ClearCells(events, rows, columns) ==
    [r \in 1..Len(events) |->
        [c \in 1..Len(events[r]) |->
            IF (r - 1) \in rows /\ c \in columns THEN FALSE ELSE events[r][c]]]

\* the viewer on a dataset with events in every row, or in some rows
InitDelete ==
    /\ AssembleIdle
    /\ PlayIdle
    /\ BinIdle
    /\ CatIdle
    /\ StoreIdle
    /\ MainIdle
    /\ NanIdle
    /\ vr = "VideoReader"
    /\ tmax = 1000
    /\ span = NavFsSong
    /\ t0 = span \div 2
    /\ nb_flies = 2 /\ focal_fly = 0 /\ other_fly = 1
    /\ swap_events = << >>
    /\ ds_pose_positions_allo = << >> /\ ds_pose_positions = << >> /\ ds_body_positions = << >>
    /\ ds_song_events =
          [r \in 1..IntDiv(tmax * NavFsOther, NavFsSong) |-> [c \in 1..Len(EventTypes) |-> TRUE]]
    /\ last_swap = << >> /\ before_swap = << >> /\ swapped_back = FALSE
    /\ cue_points = << >>
    /\ cue_index = 0
    /\ STOP = TRUE
    /\ frame_interval = NavFsSong \div NavFrameRate
    /\ presses = 0
    /\ last_update = [called |-> FALSE, t0 |-> 0, span |-> 0]
    /\ last_key = "none"
    /\ cb_index = 0
    /\ sinet0 = << >>
    /\ event_times = << >>
    /\ last_click = << >>

\* what the handlers on song_events leave alone
DeleteFrame ==
    /\ UNCHANGED << viewVars, cue_points, cue_index, STOP, frame_interval, last_update >>
    /\ UNCHANGED << swap_events, ds_pose_positions_allo, ds_pose_positions, ds_body_positions, last_swap, before_swap, swapped_back >>
    /\ UNCHANGED << sinet0, event_times, last_click >>
    /\ UNCHANGED << assembleVars, binVars, catVars, storeVars, mainVars, nanVars, playVars >>

\* the combo box: an entry is selected (lines 198-204, 340-346)
ChangeEventType ==
    /\ cb_index' \in 0..Len(EventTypes)
    /\ UNCHANGED << ds_song_events, last_key, presses >>
    /\ DeleteFrame

\* delete_current_events, lines 354-362
DeleteCurrentEvents ==
    /\ presses < MaxDeletes
    /\ presses' = presses + 1
    /\ last_key' = "U"
    /\ IF cb_index - 1 >= 0
       THEN ds_song_events' = ClearCells(ds_song_events, RowsInView, { cb_index })
       ELSE UNCHANGED ds_song_events
    /\ UNCHANGED cb_index
    /\ DeleteFrame

\* delete_all_events, lines 364-369
DeleteAllEvents ==
    /\ presses < MaxDeletes
    /\ presses' = presses + 1
    /\ last_key' = "Y"
    /\ ds_song_events' = ClearCells(ds_song_events, RowsInView, 1..Len(EventTypes))
    /\ UNCHANGED cb_index
    /\ DeleteFrame

NextDelete ==
    \/ ZoomInSong \/ ZoomOutSong \/ JumpForward \/ JumpReverse
    \/ ChangeEventType \/ DeleteCurrentEvents \/ DeleteAllEvents

SpecDelete == InitDelete /\ [][NextDelete]_vars

(* ================== the viewer: annotating on the trace ================= *)
\* gui/app.py PSV.on_trace_clicked on event_times, with the combo box that
\* selects the event type

\* the most annotations that event_times holds
MaxAnnotations == 2
\* the times of the clicks
ClickTimes == 1..3
\* event_times handed to the viewer: nothing annotated, or one segment
LoadedEventTimes ==
    { [c \in 1..Len(EventTypes) |-> << >>],
      [c \in 1..Len(EventTypes) |-> IF c = 1 THEN << << 2, 3 >> >> ELSE << >>] }

\* the annotations of all event types
NbAnnotations(times) ==
    LET RECURSIVE Sum(_)
        Sum(c) == IF c = 0 THEN 0 ELSE Len(times[c]) + Sum(c - 1)
    IN  Sum(Len(EventTypes))

\* the two clicks in the order they were made
ClickedPair(a, b) == << a, b >>
\* np.array(sorted([sinet0, mouseT]))
SortedPair(a, b) == << Min(a, b), Max(a, b) >>

\* _ui_utils.find_nearest(array, value): the entry closest to value, the
\* first of them if several are as close
FindNearest(array, value) ==
    LET Dist(i) == IF array[i] >= value THEN array[i] - value ELSE value - array[i]
        k == CHOOSE i \in 1..Len(array) :
                /\ \A j \in 1..Len(array) : Dist(i) <= Dist(j)
                /\ \A j \in 1..(i - 1) : Dist(j) > Dist(i)
    IN  array[k]

\* np.delete(this, idx, axis=0) for a set of indices
NpDelete(this, idx) ==
    LET RECURSIVE Keep(_)
        Keep(i) == IF i > Len(this) THEN << >>
                   ELSE (IF i \in idx THEN << >> ELSE << this[i] >>) \o Keep(i + 1)
    IN  Keep(1)

\* column k of the rows
Column(this, k) == [i \in 1..Len(this) |-> this[i][k]]

\* the segments after a right click at mouseT (lines 637-643); find_nearest
\* on no segment and float() of several offsets raise, and nothing is
\* deleted
DeleteSegmentAt(this, mouseT) ==
    IF this = << >>
    THEN this
    ELSE LET nearest_onset == FindNearest(Column(this, 1), mouseT)
             event_idx == { i \in 1..Len(this) : this[i][1] = nearest_onset }
         IN  IF Cardinality(event_idx) > 1
             THEN this
             ELSE LET matching_offset == this[CHOOSE i \in event_idx : TRUE][2]
                  IN  IF matching_offset > mouseT THEN NpDelete(this, event_idx) ELSE this

\* the point events after a right click at mouseT (lines 644-650), the
\* times being whole numbers and tol = 0.05
DeleteEventAt(this, mouseT) ==
    IF this = << >>
    THEN this
    ELSE LET nearest_event == FindNearest(Column(this, 1), mouseT)
         IN  IF nearest_event = mouseT
             THEN NpDelete(this, { i \in 1..Len(this) : this[i][1] = nearest_event })
             ELSE this

\* PSV.__init__ with the event_times of the caller
InitTrace ==
    /\ AssembleIdle
    /\ PlayIdle
    /\ BinIdle
    /\ CatIdle
    /\ StoreIdle
    /\ MainIdle
    /\ NanIdle
    /\ NavIdle
    /\ vr = "VideoReader"
    /\ tmax = 1000
    /\ span = NavFsSong
    /\ t0 = span \div 2
    /\ nb_flies = 2 /\ focal_fly = 0 /\ other_fly = 1
    /\ SwapIdle
    /\ cb_index = 0
    /\ sinet0 = << >>
    /\ event_times \in LoadedEventTimes
    /\ last_click = [mouseT |-> 0, mouseButton |-> 0, onset_type |-> 0]

\* on_trace_clicked(mouseT, mouseButton), lines 604-652; last_click keeps
\* the click and the event type that was selected when the pending onset
\* was clicked (0 if none is pending)
OnTraceClicked(mouseT, mouseButton) ==
    /\ last_click' =
        [mouseT |-> mouseT, mouseButton |-> mouseButton,
         onset_type |-> IF cb_index - 1 < 0 THEN last_click.onset_type
                        ELSE IF mouseButton = 1 /\ EventCategories[cb_index] = "segment" /\ sinet0 = << >>
                             THEN cb_index
                             ELSE 0]
    /\ IF cb_index - 1 < 0
       THEN UNCHANGED << sinet0, event_times >>
       ELSE IF mouseButton = 1
            THEN IF EventCategories[cb_index] = "segment"
                 THEN IF sinet0 = << >>
                      THEN /\ sinet0' = << mouseT >>
                           /\ UNCHANGED event_times
                      ELSE /\ NbAnnotations(event_times) < MaxAnnotations
                           /\ event_times' =
                                [event_times EXCEPT ![cb_index] = Append(@, SortedPair(sinet0[1], mouseT))]
                           /\ sinet0' = << >>
                 ELSE /\ NbAnnotations(event_times) < MaxAnnotations
                      /\ sinet0' = << >>
                      /\ event_times' = [event_times EXCEPT ![cb_index] = Append(@, << mouseT >>)]
            ELSE /\ sinet0' = << >>
                 /\ event_times' =
                      [event_times EXCEPT ![cb_index] =
                          IF EventCategories[cb_index] = "segment"
                          THEN DeleteSegmentAt(@, mouseT)
                          ELSE DeleteEventAt(@, mouseT)]
    /\ UNCHANGED << cb_index, viewVars, swapVars >>
    /\ UNCHANGED << assembleVars, binVars, catVars, storeVars, mainVars, nanVars, navVars, playVars >>

TraceClicked == \E mouseT \in ClickTimes, mouseButton \in { 1, 2 } : OnTraceClicked(mouseT, mouseButton)

NextTrace == ChangeEventType \/ TraceClicked

SpecTrace == InitTrace /\ [][NextTrace]_vars

(* ==================== the viewer: the playback loops ==================== *)
\* gui/app.py PSV.toggle_playvideo and PSV.play_video. The t0 setter calls
\* update_xy and update_frame, which call app.processEvents(): a key press
\* that waits in the queue is handled there, inside the running loop.
\* play_stack holds the calls of play_video that have not returned, the
\* innermost last, each at
\*   "setter": in the t0 setter of line 526, events are processed
\*   "check":  at the test of STOP, line 531
\*   "stopping": in update_xy and update_frame of lines 533-534, events are
\*             processed

\* the most calls of play_video that have not returned
MaxDepth == 3

\* PSV.__init__: playback is stopped
InitPlay ==
    /\ AssembleIdle
    /\ BinIdle
    /\ CatIdle
    /\ StoreIdle
    /\ MainIdle
    /\ NanIdle
    /\ AnnotIdle
    /\ vr = "VideoReader"
    /\ tmax \in { 1000, 1600 }
    /\ span = NavFsSong
    /\ t0 = span \div 2
    /\ nb_flies = 2 /\ focal_fly = 0 /\ other_fly = 1
    /\ SwapIdle
    /\ cue_points = << >>
    /\ cue_index = 0
    /\ STOP = TRUE
    /\ frame_interval = NavFsSong \div NavFrameRate
    /\ presses = 0
    /\ last_update = [called |-> FALSE, t0 |-> 0, span |-> 0]
    /\ last_key = "none"
    /\ play_stack = << >>

\* what the playback leaves alone
PlayFrame ==
    /\ UNCHANGED << vr, tmax, span, nb_flies, focal_fly, other_fly >>
    /\ UNCHANGED << cue_points, cue_index, frame_interval, presses, last_update, last_key >>
    /\ UNCHANGED << swapVars, assembleVars, binVars, catVars, storeVars, mainVars, nanVars, annotVars >>

\* events are processed: by the event loop of the application when no
\* play_video is running, by processEvents in the innermost play_video else
ProcessingEvents ==
    \/ play_stack = << >>
    \/ play_stack # << >> /\ play_stack[Len(play_stack)] \in { "setter", "stopping" }

\* toggle_playvideo, lines 385-388, called for a press of the space bar:
\* play_video is entered from within the handler, and its first statement
\* is the assignment to t0
PlayToggled ==
    /\ ProcessingEvents
    /\ STOP' = ~STOP
    /\ IF ~STOP'
       THEN /\ Len(play_stack) < MaxDepth
            /\ SetT0(t0 + frame_interval)
            /\ play_stack' = Append(play_stack, "setter")
       ELSE UNCHANGED << t0, play_stack >>
    /\ PlayFrame

\* the t0 setter of line 526 returns to the loop
PlaySetterReturns ==
    /\ play_stack # << >>
    /\ play_stack[Len(play_stack)] = "setter"
    /\ play_stack' = [play_stack EXCEPT ![Len(play_stack)] = "check"]
    /\ UNCHANGED << t0, STOP >>
    /\ PlayFrame

\* lines 531-535 and the next round of the loop, line 526
PlayCheckStop ==
    /\ play_stack # << >>
    /\ play_stack[Len(play_stack)] = "check"
    /\ IF STOP
       THEN /\ play_stack' = [play_stack EXCEPT ![Len(play_stack)] = "stopping"]
            /\ UNCHANGED t0
       ELSE /\ SetT0(t0 + frame_interval)
            /\ play_stack' = [play_stack EXCEPT ![Len(play_stack)] = "setter"]
    /\ UNCHANGED STOP
    /\ PlayFrame

\* update_frame of line 534 returns, RUN is False: play_video returns
PlayVideoReturns ==
    /\ play_stack # << >>
    /\ play_stack[Len(play_stack)] = "stopping"
    /\ play_stack' = SubSeq(play_stack, 1, Len(play_stack) - 1)
    /\ UNCHANGED << t0, STOP >>
    /\ PlayFrame

NextPlay == PlayToggled \/ PlaySetterReturns \/ PlayCheckStop \/ PlayVideoReturns

SpecPlay == InitPlay /\ [][NextPlay]_vars

(* ============================ properties ================================ *)
\* the positions of assemble after the grid was built
GridBuilt == pc \in {"song", "events", "body", "poses", "dataset", "done"}
\* the loaders whose outcome is known at the current position
Called(loader) == loader \in Range(calls)
\* ld.load_raw_song was called and returned the recording
RawSongLoaded ==
    /\ Called("load_raw_song")
    /\ "song_raw" \in DOMAIN res \/ (with_song /\ ~with_segmentation)
\* round(a / b) for positive a and b, halves to the even neighbour
RoundDiv(a, b) ==
    LET q == a \div b
        r == a % b
    IN  IF 2 * r < b THEN q
        ELSE IF 2 * r > b THEN q + 1
        ELSE IF q % 2 = 0 THEN q ELSE q + 1
\* ceil(a / b) for a >= 0 and b > 0
CeilDiv(a, b) == (a + b - 1) \div b

\* the optional arguments as the claims about the loaders take them: video
\* data resampled (the default), target rate not above the sampling rate
UsualArgs ==
    /\ resample_video_data
    /\ \A r \in SamplingRates : target_sampling_rate <= r

\* C1: once load_times succeeded assemble never raises, whatever the other
\* loaders do and for both values of keep_multi_channel, and the returned
\* dataset holds a block exactly when the loaders the block depends on
\* succeeded
C1_PartialResult ==
    /\ (UsualArgs /\ pc = "raised") => error = "load_times"
    /\ (UsualArgs /\ pc = "done") =>
        /\ "song" \in DOMAIN dataset <=> with_song
        /\ "song_raw" \in DOMAIN dataset <=> (keep_multi_channel /\ RawSongLoaded)
        /\ "song_events" \in DOMAIN dataset <=> (with_segmentation \/ with_segmentation_manual)
        /\ "body_positions" \in DOMAIN dataset <=> with_tracks
        /\ "pose_positions" \in DOMAIN dataset <=> with_poses
        /\ "pose_positions_allo" \in DOMAIN dataset <=> with_poses

\* C2: if both pose loaders failed while the raw recording and a tracks file
\* were loaded, assemble does not raise and returns song and body_positions
\* without pose_positions and pose_positions_allo
C2_GracefulDegradation ==
    (UsualArgs /\ Called("load_poses_leap") /\ ~with_poses
        /\ with_tracks /\ RawSongLoaded) =>
        /\ pc # "raised"
        /\ pc = "done" =>
            /\ {"song", "body_positions"} \subseteq DOMAIN dataset
            /\ "pose_positions" \notin DOMAIN dataset
            /\ "pose_positions_allo" \notin DOMAIN dataset

\* C3: a failure of load_times leaves assemble as an exception, with no
\* dataset and no other loader invoked; every later position of assemble is
\* reached only with a timing table
C3_TimingFailureFatal ==
    /\ error = "load_times" =>
        (pc = "raised" /\ calls = << "load_times" >> /\ dataset_data = << >>)
    /\ pc \notin {"load_times", "raised"} => ss # << >>
    /\ Len(calls) >= 2 => (calls[1] = "load_times" /\ ss # << >>)
C3_Witness == pc = "raised" /\ error = "load_times" /\ calls = << "load_times" >>

\* C4: in a returned dataset every array along 'time' has as many rows as
\* its time and nearest_frame coordinates, which is the length of the
\* canonical grid, and every array along 'sampletime' has
\* last_sample - first_sample rows, as has its coordinate
C4_ArrayLengths ==
    pc = "done" =>
        \A k \in DOMAIN dataset :
            IF dataset[k].dim = "time"
            THEN /\ Len(dataset[k].data) = Len(target_samples)
                 /\ Len(dataset[k].coord) = Len(target_samples)
                 /\ Len(dataset[k].nearest_frame) = Len(target_samples)
            ELSE /\ Len(dataset[k].data) = last_sample - first_sample
                 /\ Len(dataset[k].coord) = last_sample - first_sample

\* C5: all arrays along 'time' that assemble has put together for one
\* dataset carry the same time values and the same nearest_frame values
C5_OneTimeCoordinate ==
    pc \in {"dataset", "done"} =>
        \A k1, k2 \in TimeArrays(dataset_data) :
            /\ dataset_data[k1].coord = dataset_data[k2].coord
            /\ dataset_data[k1].nearest_frame = dataset_data[k2].nearest_frame

\* C6: for every sampling rate and target rate the grid is built, its
\* samples start at first_sample, stay below last_sample, are spaced by
\* round(sampling_rate / target_sampling_rate), and there are
\* ceil((last_sample - first_sample) / step) of them
C6_GridUniform ==
    /\ error # "ZeroDivisionError"
    /\ GridBuilt =>
        LET stp == RoundDiv(sampling_rate, target_sampling_rate)
        IN  /\ \A i \in 1..Len(target_samples) :
                /\ target_samples[i] = first_sample + (i - 1) * stp
                /\ target_samples[i] < last_sample
            /\ Len(target_samples) = CeilDiv(last_sample - first_sample, stp)

\* C7: the step is max(1, round(sampling_rate / target_sampling_rate)) and
\* so at least 1, also for a target rate above the sampling rate
C7_StepAtLeastOne ==
    (GridBuilt \/ error = "ZeroDivisionError") =>
        /\ step >= 1
        /\ step = Max(1, RoundDiv(sampling_rate, target_sampling_rate))

\* C8: last_sample is the smaller of the last sample number of the
\* recording and the sample of the last frame of the tracked range, and
\* every grid sample lies below both
C8_LastSampleClamped ==
    GridBuilt =>
        /\ last_sample = Min(last_sample_number, ss[last_tracked_frame])
        /\ \A i \in 1..Len(target_samples) :
            /\ target_samples[i] < ss[last_tracked_frame]
            /\ target_samples[i] < last_sample_number
C8_Witness ==
    /\ GridBuilt /\ with_tracks
    /\ ss[last_tracked_frame] < last_sample_number
    /\ Len(target_samples) >= 2

\* C9: when both track loaders failed the frame range is estimated from the
\* frames of sample 0 and of the last sample, and the grid ends at the last
\* sample number of the recording
C9_GridSpansRecording ==
    (GridBuilt /\ Called("load_tracks_nonfixed") /\ ~with_tracks) =>
        /\ first_tracked_frame = IntOf(SsFrame(ss, 0))
        /\ last_tracked_frame = IntOf(SsFrame(ss, last_sample_number))
        /\ last_sample = last_sample_number

\* C10: the nearest_frame values along the grid never decrease, also at grid
\* samples before the sample of the first tracked frame
C10_NearestFrameMonotone ==
    GridBuilt =>
        \A i \in 1..(Len(nearest_frame_time) - 1) :
            nearest_frame_time[i] <= nearest_frame_time[i + 1]


\* the frame numbers of the video, one per row of the timing table
ValidFrames == 0..(Len(ss) - 1)
\* the grid samples that lie outside the samples of the tracked frames
OutsideTrackedSpan(s) ==
    LET fs == SsSampleAll(ss, Arange(first_tracked_frame, last_tracked_frame, 1))
    IN  s < fs[1] \/ s > fs[Len(fs)]

\* C11: for a grid sample outside the samples of the tracked frames the
\* nearest-frame lookup does not fail, and the nearest_frame value kept for
\* the grid and stored with every array on the grid is a missing value that
\* is no valid frame number
C11_UnknownFrameSentinel ==
    pc \in {"song", "events", "body"} =>
        \A i \in 1..Len(target_samples) :
            OutsideTrackedSpan(target_samples[i]) =>
                /\ nearest_frame_time[i] \notin ValidFrames
                /\ \A k \in TimeArrays(dataset_data) :
                    dataset_data[k].nearest_frame[i] \notin ValidFrames


\* the rows of one column of the matrix that are True, counted from 0
TrueRows(m, key) == { i - 1 : i \in { j \in 1..Len(m) : m[j][key] } }
\* the samples of the point events of a run
PointSamples(in) == { in.pulse_manual[i][1] : i \in 1..Len(in.pulse_manual) }

\* C12: a point event at a sample s inside the grid sets the cell of row
\* floor(s / step) in the column of its event type; every cell set in that
\* column is the bin of one of its point events, and the column of the other
\* event type is what it is without the point events
C12_PointEventBin ==
    ev_pc = "binned" =>
        /\ \A s \in PointSamples(ev_in) :
            s < ev_last => ev_matrix[s \div ev_step + 1].pulse_manual
        /\ \A r \in TrueRows(ev_matrix, "pulse_manual") :
            \E s \in PointSamples(ev_in) : r = s \div ev_step
        /\ TrueRows(ev_matrix, "sine_manual") =
            TrueRows(BinMatrix([ev_in EXCEPT !.pulse_manual = << >>], ev_step, ev_last),
                     "sine_manual")
C12_Witness ==
    /\ ev_pc = "binned"
    /\ ev_step = 10
    /\ ev_in.pulse_manual = << << 205 >> >>
    /\ TrueRows(ev_matrix, "pulse_manual") = { 20 }


\* the step is a run with one more point event in a bin that holds one
SameBinPointAdded ==
    /\ ev_pc = "binned" /\ ev_pc' = "binned"
    /\ \E s \in BinPoints(ev_step, ev_last) :
        /\ ev_in' = [ev_in EXCEPT !.pulse_manual = Append(@, << s >>)]
        /\ \E t \in PointSamples(ev_in) : s \div ev_step = t \div ev_step

\* C13: a run with one more point event, a duplicate of one of the input or
\* another one of the same bin, gives the matrix of the run without it; the
\* point events at samples 205 and 209 with step 10 give one True, in bin 20
C13_IdempotentUnion ==
    /\ [](( ev_pc = "binned" /\ ev_step = 10 /\ PointSamples(ev_in) = { 205, 209 }) =>
            TrueRows(ev_matrix, "pulse_manual") = { 20 })
    /\ [][SameBinPointAdded => ev_matrix' = ev_matrix]_vars
C13_Witness ==
    /\ ev_pc = "binned"
    /\ ev_step = 10
    /\ ev_in.pulse_manual = << << 205 >>, << 209 >> >>
    /\ TrueRows(ev_matrix, "pulse_manual") = { 20 }


\* the (onset, offset) rows of the segment events of a run
Segments(in) == { in.sine_manual[i] : i \in 1..Len(in.sine_manual) }
\* the rows of the grid
GridRows == 0..(Len(TargetSamples(0, ev_last, ev_step)) - 1)

\* C14: for a segment (onset, offset) every bin from floor(onset / step) to
\* floor(offset / step) that is a row of the grid is True in the column of
\* its event type, also for a segment shorter than a step, of which a bin
\* inside the grid is marked; no other bin of that column is True
C14_SegmentInclusive ==
    ev_pc = "binned" =>
        /\ \A seg \in Segments(ev_in) :
            /\ \A r \in GridRows :
                (seg[1] \div ev_step <= r /\ r <= seg[2] \div ev_step) =>
                    ev_matrix[r + 1].sine_manual
            /\ seg[1] < ev_last =>
                \E r \in TrueRows(ev_matrix, "sine_manual") :
                    seg[1] \div ev_step <= r /\ r <= seg[2] \div ev_step
        /\ \A r \in TrueRows(ev_matrix, "sine_manual") :
            \E seg \in Segments(ev_in) :
                seg[1] \div ev_step <= r /\ r <= seg[2] \div ev_step
\* a segment shorter than a step that alone marks bin 0, and a segment over
\* the four bins 1 .. 4, with exactly their bins marked
C14_Witness ==
    /\ ev_pc = "binned"
    /\ ev_step = 10
    /\ ev_in.sine_manual = << << 1, 1 >>, << 19, 41 >> >>
    /\ TrueRows(ev_matrix, "sine_manual") = { 0, 1, 2, 3, 4 }


\* C15: a segment (onset, offset) inside the grid that is at least a step
\* long gives at least floor((offset - onset) / step) True bins in a row in
\* the column of its event type
C15_SegmentCoverage ==
    ev_pc = "binned" =>
        \A seg \in Segments(ev_in) :
            (seg[2] - seg[1] >= ev_step /\ seg[2] < ev_last) =>
                \E a \in GridRows :
                    \A r \in a..(a + (seg[2] - seg[1]) \div ev_step - 1) :
                        r \in TrueRows(ev_matrix, "sine_manual")
\* a segment of 22 samples with step 10: two bins are asked for, four are set
C15_Witness ==
    /\ ev_pc = "binned"
    /\ ev_step = 10
    /\ ev_in.sine_manual = << << 19, 41 >> >>
    /\ TrueRows(ev_matrix, "sine_manual") = { 1, 2, 3, 4 }


\* the bins of all samples of an event type, filtered or not
AllBins(in, key) ==
    LET ev == ExpandEvents(in[key])
    IN  { ev[i] \div ev_step : i \in 1..Len(ev) }

\* C16: no run writes outside its matrix; an event whose bin is at or beyond
\* the number of rows of the grid is dropped and every event whose bin is
\* below it is kept, so the bins that pass the filter are those of
\* 0 .. len(time) - 1
C16_FilterExact ==
    /\ ev_pc # "raised"
    /\ ev_pc = "binned" =>
        \A key \in DOMAIN ev_in :
            /\ TrueRows(ev_matrix, key) = AllBins(ev_in, key) \cap GridRows
            /\ EventTimes(ExpandEvents(ev_in[key]), ev_step, ev_last) \subseteq GridRows
\* step 4, 12 samples, three rows: the point event at sample 11 is kept in
\* bin 2, the one at sample 12 has bin 3 and is dropped
C16_Witness ==
    /\ ev_pc = "binned"
    /\ ev_step = 4 /\ ev_last = 12
    /\ ev_in.pulse_manual = << << 11 >>, << 12 >> >>
    /\ TrueRows(ev_matrix, "pulse_manual") = { 2 }


\* the step is a run on the events of the run before, in another order
Reordered ==
    /\ ev_pc = "binned" /\ ev_pc' = "binned"
    /\ \E key \in DOMAIN ev_in : \E i \in 1..(Len(ev_in[key]) - 1) :
        ev_in' = [ev_in EXCEPT ![key] = Exchanged(@, i)]

\* C17: the matrix is that of a run on the same events with any two
\* neighbouring rows of one event type exchanged, and a run on the events in
\* another order, or on the same events again, leaves the matrix as it is
C17_OrderIndependent ==
    /\ [](ev_pc = "binned" =>
            \A key \in DOMAIN ev_in : \A i \in 1..(Len(ev_in[key]) - 1) :
                BinMatrix([ev_in EXCEPT ![key] = Exchanged(@, i)], ev_step, ev_last)
                    = ev_matrix)
    /\ [][Reordered => ev_matrix' = ev_matrix]_vars
\* point events given in descending order, one of them outside the grid
C17_Witness ==
    /\ ev_pc = "binned"
    /\ ev_step = 4 /\ ev_last = 12
    /\ ev_in.pulse_manual = << << 16 >>, << 11 >> >>
    /\ TrueRows(ev_matrix, "pulse_manual") = { 2 }


\* the grid sample s lies outside the samples of the frames [first, last)
OutsideFrames(s, first, last) ==
    s < SsSample(ss, first) \/ s > SsSample(ss, last - 1)
\* every row of a resampled array at a grid sample outside the frames
\* [first, last) is NaN
MissingOutside(a, first, last) ==
    \A i \in 1..Len(target_samples) :
        OutsideFrames(target_samples[i], first, last) => a.data[i] = NaN

\* C18: body and pose positions resampled onto the grid are NaN at every
\* grid sample outside the samples of the frames of their own file, and the
\* resampling blocks do not raise
C18_MissingOutsideRange ==
    /\ []((resample_video_data /\ "body_positions" \in DOMAIN dataset_data) =>
            MissingOutside(dataset_data.body_positions,
                           first_tracked_frame, last_tracked_frame))
    /\ []((resample_video_data /\ "pose_positions" \in DOMAIN dataset_data) =>
            /\ MissingOutside(dataset_data.pose_positions, first_pose_frame, last_pose_frame)
            /\ MissingOutside(dataset_data.pose_positions_allo,
                              first_pose_frame, last_pose_frame))
    /\ [][(resample_video_data /\ pc \in {"body", "poses"}) => pc' # "raised"]_vars
\* a returned dataset whose poses start after the grid does and end before
\* it: the first and the last row of the poses are NaN, a row between them
\* holds positions, as does that row of the body positions
C18_Witness ==
    /\ pc = "done" /\ resample_video_data
    /\ {"body_positions", "pose_positions"} \subseteq DOMAIN dataset
    /\ first_tracked_frame < first_pose_frame /\ last_pose_frame < last_tracked_frame
    /\ dataset.pose_positions.data[1] = NaN
    /\ \E i \in 1..Len(target_samples) :
        /\ target_samples[i] > SsSample(ss, last_pose_frame - 1)
        /\ dataset.pose_positions.data[i] = NaN
        /\ dataset.pose_positions_allo.data[i] = NaN
    /\ \E i \in 1..Len(target_samples) :
        /\ dataset.pose_positions.data[i] # NaN
        /\ dataset.body_positions.data[i] # NaN


\* the array along 'sampletime' holds the samples first_sample ..
\* last_sample - 1 of the recording, in their order, each at its own time
NativeSamples(a, recording) ==
    /\ Len(a.data) = last_sample - first_sample
    /\ Len(a.coord) = last_sample - first_sample
    /\ \A i \in 1..Len(a.data) :
        /\ a.data[i] = recording[first_sample + i]
        /\ a.coord[i] = << first_sample + i - 1, sampling_rate >>

\* C19: for every target sampling rate, once a recording was loaded assemble
\* stores it as song (and the multi channel recording as song_raw) with one
\* value per sample of [first_sample, last_sample) in the original order and
\* sampletime[i] = (first_sample + i) / sampling_rate, whatever the step
C19_RawSignalNative ==
    (with_song /\ (pc \in {"events", "body", "poses", "dataset", "done"}
                    \/ error = "ZeroDivisionError")) =>
        /\ "song" \in DOMAIN dataset_data
        /\ NativeSamples(dataset_data.song, res.song)
        /\ (keep_multi_channel /\ "song_raw" \in DOMAIN res) =>
            /\ "song_raw" \in DOMAIN dataset_data
            /\ NativeSamples(dataset_data.song_raw, res.song_raw)


\* the step is a swap with the entry of the swap before it, which the log
\* still holds
SecondSwap ==
    /\ swap_events' # swap_events
    /\ last_swap' = last_swap
    /\ last_swap \in Range(swap_events)

\* C20: a swap invoked a second time at the same index with the same flies
\* removes its entry from the swap log instead of adding one; the log and
\* the arrays pose_positions_allo, pose_positions and body_positions are
\* then what they were before the first of the two swaps
C20_SwapSelfInverse ==
    [][SecondSwap =>
        /\ last_swap \notin Range(swap_events')
        /\ Len(swap_events') = Len(swap_events) - 1
        /\ swap_events' = before_swap.log
        /\ ds_pose_positions_allo' = before_swap.allo
        /\ ds_pose_positions' = before_swap.ego
        /\ ds_body_positions' = before_swap.body]_vars
\* a swap of two flies at a row below the last was undone by its repetition,
\* with another swap still in the log
C20_Witness ==
    /\ swapped_back
    /\ Len(swap_events) = 1
    /\ last_swap[1] < ViewRows /\ last_swap[2] # last_swap[3]
    /\ last_swap \notin Range(swap_events)
    /\ ds_body_positions # PositionsOf(0, nb_flies)


\* a is the array b with the flies fly1 and fly2 exchanged in the rows from
\* index i on, and nothing else changed
ExchangedFrom(a, b, i, fly1, fly2) ==
    /\ Len(a) = Len(b)
    /\ \A r \in 1..Len(b) :
        /\ DOMAIN a[r] = DOMAIN b[r]
        /\ r - 1 < i => a[r] = b[r]
        /\ r - 1 >= i =>
            /\ a[r][fly1] = b[r][fly2]
            /\ a[r][fly2] = b[r][fly1]
            /\ \A f \in DOMAIN b[r] \ { fly1, fly2 } : a[r][f] = b[r][f]

\* C21: a swap at index i exchanges the two flies in pose_positions_allo,
\* pose_positions and body_positions in the rows from i on; the rows before
\* i, the other flies and the other array of the dataset stay as they are
C21_SwapFrame ==
    [][swap_events' # swap_events =>
        LET i == last_swap'[1]
            fly1 == last_swap'[2]
            fly2 == last_swap'[3]
        IN  /\ ExchangedFrom(ds_pose_positions_allo', ds_pose_positions_allo, i, fly1, fly2)
            /\ ExchangedFrom(ds_pose_positions', ds_pose_positions, i, fly1, fly2)
            /\ ExchangedFrom(ds_body_positions', ds_body_positions, i, fly1, fly2)
            /\ ds_song_events' = ds_song_events]_vars
\* one swap of the flies 0 and 1 of three at index 2: rows 1 and 2 and fly 2
\* are as assembled, row 3 has the two flies exchanged
C21_Witness ==
    /\ swap_events = << << 2, 0, 1 >> >>
    /\ nb_flies = 3
    /\ ds_body_positions[1] = PositionsOf(0, 3)[1]
    /\ ds_body_positions[2] = PositionsOf(0, 3)[2]
    /\ ds_body_positions[3][0] = PositionsOf(0, 3)[3][1]
    /\ ds_body_positions[3][1] = PositionsOf(0, 3)[3][0]
    /\ ds_body_positions[3][2] = PositionsOf(0, 3)[3][2]
    /\ ds_song_events = EventsOnView


\* the names of EventNames that hold 'sine' or 'syllable'
SegmentNames ==
    { << "s", "i", "n", "e" >>,
      << "s", "i", "n", "e", "_", "m", "a", "n", "u", "a", "l" >>,
      << "s", "y", "l", "l", "a", "b", "l", "e", "_", "a" >>,
      << "c", "o", "s", "i", "n", "e", "s" >> }

\* C22: for a dataset without event_categories every event type gets the
\* category 'segment' if its name holds 'sine' or 'syllable' and 'event' if
\* not; the categories of a dataset that has them stay as they are
C22_CategoryHeuristic ==
    [][(cat_pc = "start" /\ cat_pc' = "done") =>
        IF has_event_categories
        THEN ds_event_categories' = ds_event_categories
        ELSE /\ has_event_categories'
             /\ Len(ds_event_categories') = Len(ds_event_types)
             /\ \A i \in 1..Len(ds_event_types) :
                 ds_event_categories'[i] =
                     IF ds_event_types[i] \in SegmentNames THEN "segment" ELSE "event"]_vars
\* 'cosines' holds 'sine' inside and is a segment, 'Sine' does not and is an
\* event
C22_Witness ==
    /\ cat_pc = "done"
    /\ ds_event_types = << << "c", "o", "s", "i", "n", "e", "s" >>, << "S", "i", "n", "e" >> >>
    /\ ds_event_categories = << "segment", "event" >>


GridScenario ==
    /\ pc = "song"
    /\ sampling_rate = 10000 /\ target_sampling_rate = 1000
    /\ first_sample = 0 /\ last_sample = 10000

\* C24 as stated: in the scenario the grid has step 10 and 1000 points and
\* its time coordinate is 0, 0.01, 0.02, .., 9.99
C24_ScenarioAsStated ==
    GridScenario =>
        /\ step = 10
        /\ Len(target_samples) = 1000
        /\ Len(time) = 1000
        /\ \A i \in 1..Len(time) : time[i][1] * 100 = (i - 1) * time[i][2]
\* C24, amended: in the scenario the grid has step 10 and 1000 points and
\* its time coordinate is 0, 0.001, 0.002, .., 0.999 (seconds: the sample
\* numbers 0, 10, .., 9990 over the sampling rate)
C24_Scenario ==
    GridScenario =>
        /\ step = 10
        /\ Len(target_samples) = 1000
        /\ Len(time) = 1000
        /\ \A i \in 1..Len(time) : time[i][1] * 1000 = (i - 1) * time[i][2]
C24_Witness ==
    /\ GridScenario
    /\ target_samples[1000] = 9990
    /\ time[1000] = << 9990, 10000 >>


\* C25: with no dataset file, or with ignore_existing set, main calls
\* assemble with the dat_path and res_path of its caller, and the call is
\* accepted with the arguments main supplies
C25_MainAssembles ==
    (main_pc # "start" /\ (ignore_existing \/ ~is_ds)) =>
        /\ main_error = None
        /\ main_pc = "assembling"
        /\ assemble_kwargs.dat_path = main_dat_path
        /\ assemble_kwargs.res_path = main_res_path


\* two floats are the same number
SameNumber(a, b) == a # NaN /\ b # NaN /\ a[1] * b[2] = b[1] * a[2]

\* the positions of the numbers of an array that are closest to position i
NearestValid(a, i) ==
    LET V == { j \in 1..Len(a) : a[j] # NaN }
        Dist(j) == IF j >= i THEN j - i ELSE i - j
    IN  { j \in V : \A k \in V : Dist(j) <= Dist(k) }

\* C26: remove_nan leaves every number of the array as it is and puts in the
\* place of every NaN the number at the closest position that holds one
C26_NearestValid ==
    rn_pc = "done" =>
        /\ Len(rn_x) = Len(rn_arg)
        /\ \A i \in 1..Len(rn_arg) :
            IF rn_arg[i] # NaN
            THEN rn_x[i] = rn_arg[i]
            ELSE \E j \in NearestValid(rn_arg, i) : SameNumber(rn_x[i], rn_arg[j])


\* position of a loader in calls, 0 if it was not called
CallIndex(name) ==
    IF name \in Range(calls) THEN CHOOSE i \in 1..Len(calls) : calls[i] = name ELSE 0

\* assemble is past the loading of the tracks
TracksSettled == "load_poses_deepposekit" \in Range(calls)

\* C27: the tracks file that is not fixed is tried only after the fixed one
\* failed, the frame range comes from the recording only after both failed,
\* and body_positions has tracks_fixed = True exactly if the positions are
\* those of the fixed tracks file
C27_TrackFallback ==
    /\ CallIndex("load_tracks_nonfixed") > 0 =>
        /\ CallIndex("load_tracks_fixed") > 0
        /\ CallIndex("load_tracks_fixed") < CallIndex("load_tracks_nonfixed")
        /\ ~with_fixed_tracks
    /\ (TracksSettled /\ ~with_tracks) =>
        /\ CallIndex("load_tracks_fixed") > 0
        /\ CallIndex("load_tracks_fixed") < CallIndex("load_tracks_nonfixed")
    /\ (TracksSettled /\ CallIndex("load_tracks_nonfixed") = 0) =>
        with_tracks /\ with_fixed_tracks
    /\ "body_positions" \in DOMAIN dataset_data =>
        (dataset_data.body_positions.attrs.tracks_fixed
            <=> CallIndex("load_tracks_nonfixed") = 0)
\* a dataset whose positions are those of the tracks file that is not fixed
C27_Witness ==
    /\ pc = "done"
    /\ "body_positions" \in DOMAIN dataset_data
    /\ ~dataset_data.body_positions.attrs.tracks_fixed
    /\ CallIndex("load_tracks_nonfixed") = 3


\* a viewer of gui/app.py is open
NavOpen == vr # None /\ tmax \in NavTMaxes

\* C28: in gui/app.py the centre of the view is within its bounds after any
\* sequence of steps, jumps, cue point jumps, go-tos, zooms and playback:
\* span / 2 <= t0 <= tmax - span / 2
C28_ViewCentreInBounds ==
    NavOpen => (span <= 2 * t0 /\ 2 * t0 <= 2 * tmax - span)


\* C29: in psv.py every call of update(), from a key press or from the
\* playback loop, finds span / 2 <= t0 <= tmax - span / 2 and span >= 500
C29_UpdateInBounds ==
    last_update.called =>
        /\ last_update.span <= 2 * last_update.t0
        /\ 2 * last_update.t0 <= 2 * tmax - last_update.span
        /\ last_update.span >= PsvMinSpan

\* key K or L of psv.py was pressed
PsvCueKey == presses' # presses /\ last_key' \in { "K", "L" }

\* C30: with cue points, K and L leave cue_index within 0 .. len - 1 and t0
\* at the cue point of cue_index, held within the bounds of the view;
\* without cue points they change neither cue_index nor t0
C30_CueNavigation ==
    [][PsvCueKey =>
        IF cue_points # << >>
        THEN /\ 0 <= cue_index' /\ cue_index' <= Len(cue_points) - 1
             /\ t0' = IntHalf(Clip(2 * cue_points[cue_index' + 1], span', 2 * tmax - span'))
        ELSE cue_index' = cue_index /\ t0' = t0]_vars


\* C31: in gui/app.py with two flies or more, other_fly is never focal_fly
\* after any sequence of change_focal_fly and on_video_clicked
C31_OtherNotFocal ==
    nb_flies >= 2 => other_fly # focal_fly
\* the focal fly was changed to fly 2 and a click chose fly 1, whose pose is
\* missing, as the other fly
C31_Witness ==
    /\ nb_flies = 3
    /\ focal_fly = 2 /\ other_fly = 1
    /\ ds_pose_positions_allo[IndexOther(t0) + 1][1] = NaN


\* row r (from 0) of song_events lies in the displayed window
\* [index_other - span_index, index_other + span_index)
InWindow(r) ==
    /\ 2 * NavFsSong * NavIndexOther - span * NavFsOther <= 2 * NavFsSong * r
    /\ 2 * NavFsSong * r < 2 * NavFsSong * NavIndexOther + span * NavFsOther

\* the cells of the columns in the window are False and every other cell is
\* as it was
ClearedInWindow(columns) ==
    /\ Len(ds_song_events') = Len(ds_song_events)
    /\ \A r \in 1..Len(ds_song_events), c \in 1..Len(EventTypes) :
        ds_song_events'[r][c] =
            IF InWindow(r - 1) /\ c \in columns THEN FALSE ELSE ds_song_events[r][c]

\* C32: 'Delete all events in view' sets to False exactly the cells of
\* song_events in the displayed window, for all event types; 'Delete events
\* of selected type in view' does so for the column of the selected type
\* and changes nothing if none is selected; in every reachable state of t0
\* and span
C32_DeleteInView ==
    [][/\ DeleteAllEvents => ClearedInWindow(1..Len(EventTypes))
       /\ DeleteCurrentEvents =>
            ClearedInWindow(IF cb_index = 0 THEN {} ELSE { cb_index })]_vars


\* the swaps of a log applied in order to an array
RECURSIVE Replay(_, _)
Replay(a, log) ==
    IF log = << >>
    THEN a
    ELSE Replay(SwapColumns(a, Head(log)[1], Head(log)[2], Head(log)[3]), Tail(log))

\* C33: after any sequence of swaps, the swaps now in swap_events, applied
\* in order to the position arrays as they were assembled, give the
\* position arrays of the moment
C33_LogReplays ==
    /\ ds_pose_positions_allo = Replay(PositionsOf(200, nb_flies), swap_events)
    /\ ds_pose_positions = Replay(PositionsOf(100, nb_flies), swap_events)
    /\ ds_body_positions = Replay(PositionsOf(0, nb_flies), swap_events)


\* the segment types that gained a segment in the step
GainedSegment ==
    { c \in 1..Len(EventTypes) :
        EventCategories[c] = "segment" /\ Len(event_times'[c]) > Len(event_times[c]) }

\* C34: with a segment type selected, a left click with no onset pending
\* only records the onset; the next left click appends exactly one segment
\* [min(t1, t2), max(t1, t2)] to the selected type and clears the onset; a
\* right click, or a left click on a point type, clears the onset and adds
\* no segment; every stored segment has onset <= offset
C34_TwoClickProtocol ==
    [][/\ (TraceClicked /\ cb_index > 0) =>
            LET mouseT == last_click'.mouseT
                left == last_click'.mouseButton = 1
                segment == EventCategories[cb_index] = "segment"
            IN  /\ (left /\ segment /\ sinet0 = << >>) =>
                        sinet0' = << mouseT >> /\ event_times' = event_times
                /\ (left /\ segment /\ sinet0 # << >>) =>
                        /\ sinet0' = << >>
                        /\ event_times' =
                            [event_times EXCEPT ![cb_index] =
                                Append(@, << Min(sinet0[1], mouseT), Max(sinet0[1], mouseT) >>)]
                /\ (~left \/ ~segment) => sinet0' = << >> /\ GainedSegment = {}
       /\ \A c \in 1..Len(EventTypes) :
            EventCategories[c] = "segment" =>
                \A i \in 1..Len(event_times'[c]) : event_times'[c][i][1] <= event_times'[c][i][2]]_vars

\* a segment of the third type made of a click at 3 and then a click at 1
C34_Witness ==
    /\ cb_index = 3
    /\ last_click = [mouseT |-> 1, mouseButton |-> 1, onset_type |-> 0]
    /\ sinet0 = << >>
    /\ event_times[3] = << << 1, 3 >> >>

\* C35: a left click with segment type B selected never appends to B a
\* segment whose onset is a click made with another segment type selected,
\* whatever was selected in between
C35_OnsetNotCarried ==
    [][(TraceClicked /\ last_click'.mouseButton = 1 /\ cb_index \in GainedSegment) =>
            last_click.onset_type = cb_index]_vars

\* C36: a right click at T with a segment type selected deletes nothing of
\* another event type, deletes at most one segment of the selected type,
\* and only a segment with onset <= T <= offset
C36_DeleteOnlyAtClick ==
    [][(/\ TraceClicked
        /\ last_click'.mouseButton = 2
        /\ cb_index > 0
        /\ EventCategories[cb_index] = "segment") =>
            LET mouseT == last_click'.mouseT
                this == event_times[cb_index]
            IN  /\ \A c \in 1..Len(EventTypes) : c # cb_index => event_times'[c] = event_times[c]
                /\ \E deleted \in SUBSET (1..Len(this)) :
                    /\ Cardinality(deleted) <= 1
                    /\ event_times'[cb_index] = NpDelete(this, deleted)
                    /\ \A i \in deleted : this[i][1] <= mouseT /\ mouseT <= this[i][2]]_vars


\* C37: at most one playback loop is active at any time, whatever play and
\* stop toggles are handled during playback
C37_OneLoop == Len(play_stack) <= 1

====
